---------------------------- MODULE Spec2Model ----------------------------
(***************************************************************************)
(* A model of the ARC-4 ABI type system of algorand/avm-abi: the type      *)
(* representation (abi/type.go), the signature parser TypeOf with          *)
(* parseTupleContent, and the binary codec Encode/Decode (avm-abi/doc.go). *)
(*                                                                         *)
(* Go strings are TLA+ strings (TLC evaluates Len, SubSeq and \o on them), *)
(* a Go (value, error) pair is a record with an err field, and a Go loop   *)
(* is a recursive operator over the loop index and the loop's locals.      *)
(***************************************************************************)
EXTENDS Integers, Sequences, FiniteSets, TLC

VARIABLES
    pc,        \* position in the call sequence of the current scenario
    str,       \* the signature string handed to TypeOf
    parsed,    \* result of TypeOf(str)
    op,        \* the Type method applied to parsed.t after parsing
    result,    \* what that method returned
    reparsed,  \* result of TypeOf(parsed.t.String())
    str0,      \* a second signature string (for Equal)
    parsed0,   \* result of TypeOf(str0)
    goValue,   \* the Go value handed to Encode
    encResult, \* result of Encode, and the capacity its byte slice has
    decResult, \* result of Decode on the encoded bytes
    children   \* the []Type a caller of MakeTupleType holds

vars == <<pc, str, parsed, op, result, reparsed, str0, parsed0, goValue, encResult, decResult,
          children>>

(***************************************************************************)
(* Program constants                                                       *)
(***************************************************************************)
addressByteSize == 32
singleByteSize == 1
singleBoolSize == 1
lengthEncodeByteSize == 2
abiEncodingLengthLimit == 65536
MaxUint16 == 65535
MaxUintBitSize == 512
MaxUfixedPrecision == 160

\* uint16(x): conversion of a non-negative int to the 16-bit unsigned type
Uint16(x) == x % 65536

(***************************************************************************)
(* Go standard library helpers on strings, as the code uses them           *)
(***************************************************************************)
\* str[lo:hi] with Go's 0-based, half-open indices
Sub(s, lo, hi) == SubSeq(s, lo + 1, hi)

\* str[i], one byte of the string
At(s, i) == SubSeq(s, i + 1, i + 1)

HasSuffix(s, suf) ==
    /\ Len(s) >= Len(suf)
    /\ Sub(s, Len(s) - Len(suf), Len(s)) = suf

HasPrefix(s, pre) ==
    /\ Len(s) >= Len(pre)
    /\ Sub(s, 0, Len(pre)) = pre

\* strings.Count(s, c) for a one-byte c
Count(s, c) == Cardinality({i \in 0..(Len(s) - 1) : At(s, i) = c})

\* strings.Contains(s, sub)
Contains(s, sub) ==
    \E i \in 0..(Len(s) - Len(sub)) : Sub(s, i, i + Len(sub)) = sub

\* strings.Index(s, c) for a one-byte c: the first position, or -1
Index(s, c) ==
    LET hits == {i \in 0..(Len(s) - 1) : At(s, i) = c}
    IN  IF hits = {} THEN -1 ELSE CHOOSE i \in hits : \A j \in hits : i <= j

\* strings.LastIndex(s, c) for a one-byte c: the last position, or -1
LastIndex(s, c) ==
    LET hits == {i \in 0..(Len(s) - 1) : At(s, i) = c}
    IN  IF hits = {} THEN -1 ELSE CHOOSE i \in hits : \A j \in hits : i >= j

RECURSIVE Split(_, _)
\* strings.Split(s, sep) for a one-byte sep
Split(s, sep) ==
    LET i == Index(s, sep)
    IN  IF i = -1 THEN <<s>>
        ELSE <<Sub(s, 0, i)>> \o Split(Sub(s, i + 1, Len(s)), sep)

RECURSIVE JoinCommaSpace(_, _)
\* Join as it would be with ", " written for the separator
JoinCommaSpace(elems, sep) ==
    IF Len(elems) = 0 THEN ""
    ELSE IF Len(elems) = 1 THEN elems[1]
    ELSE elems[1] \o sep \o " " \o JoinCommaSpace(Tail(elems), sep)

RECURSIVE Join(_, _)
\* strings.Join(elems, sep)
Join(elems, sep) ==
    IF Len(elems) = 0 THEN ""
    ELSE IF Len(elems) = 1 THEN elems[1]
    ELSE elems[1] \o sep \o Join(Tail(elems), sep)

DigitChars == "0123456789"
LowerChars == "abcdefghijklmnopqrstuvwxyz"

IsDigit(c) == \E d \in 0..9 : At(DigitChars, d) = c
IsLower(c) == \E d \in 0..25 : At(LowerChars, d) = c
DigitVal(c) == CHOOSE d \in 0..9 : At(DigitChars, d) = c

RECURSIVE FormatUint(_)
\* fmt.Sprintf("%d", n) for n >= 0
FormatUint(n) ==
    IF n < 10 THEN At(DigitChars, n)
    ELSE FormatUint(n \div 10) \o At(DigitChars, n % 10)

RECURSIVE ParseUintFrom(_, _, _, _)
ParseUintFrom(s, i, acc, maxVal) ==
    IF i = Len(s) THEN [err |-> FALSE, n |-> acc]
    ELSE IF ~IsDigit(At(s, i)) THEN [err |-> TRUE, n |-> 0]
    ELSE LET n1 == acc * 10 + DigitVal(At(s, i))
         IN  IF n1 > maxVal THEN [err |-> TRUE, n |-> maxVal]
             ELSE ParseUintFrom(s, i + 1, n1, maxVal)

\* strconv.ParseUint(s, 10, 16): no sign, no underscore, at least one digit,
\* and a range error above 65535
ParseUint16(s) ==
    IF Len(s) = 0 THEN [err |-> TRUE, n |-> 0]
    ELSE ParseUintFrom(s, 0, 0, MaxUint16)

\* the regular expression [1-9][\d]* , anchored at both ends
IsPositiveDecimal(s) ==
    /\ Len(s) >= 1
    /\ IsDigit(At(s, 0)) /\ At(s, 0) # "0"
    /\ \A i \in 1..(Len(s) - 1) : IsDigit(At(s, i))

\* the character class [a-z\d\[\](),]
IsTypeChar(c) == IsLower(c) \/ IsDigit(c) \/ c = "[" \/ c = "]" \/ c = "(" \/ c = ")" \/ c = ","

(***************************************************************************)
(* abi.Type                                                                *)
(***************************************************************************)
\* the zero value Type{}, returned beside every error
ZeroType == [kind |-> "InvalidType", childTypes |-> <<>>, bitSize |-> 0,
             precision |-> 0, staticLength |-> 0]

byteType == [ZeroType EXCEPT !.kind = "Byte"]
boolType == [ZeroType EXCEPT !.kind = "Bool"]
addressType == [ZeroType EXCEPT !.kind = "Address"]
stringType == [ZeroType EXCEPT !.kind = "String"]

\* a (Type, error) pair; panic marks a run-time panic instead of a return
TypeErr == [err |-> TRUE, panic |-> FALSE, t |-> ZeroType]
TypePanic == [err |-> TRUE, panic |-> TRUE, t |-> ZeroType]
TypeOk(t) == [err |-> FALSE, panic |-> FALSE, t |-> t]

\* makeUintType as it would be with >= written for > in the upper limit
makeUintTypeUpperOff(typeSize) ==
    IF typeSize % 8 # 0 \/ typeSize < 8 \/ typeSize >= MaxUintBitSize THEN TypeErr
    ELSE TypeOk([ZeroType EXCEPT !.kind = "Uint", !.bitSize = Uint16(typeSize)])

makeUintType(typeSize) ==
    IF typeSize % 8 # 0 \/ typeSize < 8 \/ typeSize > MaxUintBitSize THEN TypeErr
    ELSE TypeOk([ZeroType EXCEPT !.kind = "Uint", !.bitSize = Uint16(typeSize)])

makeUfixedType(typeSize, typePrecision) ==
    IF typeSize % 8 # 0 \/ typeSize < 8 \/ typeSize > MaxUintBitSize THEN TypeErr
    ELSE IF typePrecision > MaxUfixedPrecision \/ typePrecision < 1 THEN TypeErr
    ELSE TypeOk([ZeroType EXCEPT !.kind = "Ufixed", !.bitSize = Uint16(typeSize),
                                 !.precision = Uint16(typePrecision)])

makeStaticArrayType(argumentType, arrayLength) ==
    [ZeroType EXCEPT !.kind = "ArrayStatic", !.childTypes = <<argumentType>>,
                     !.staticLength = arrayLength]

makeDynamicArrayType(argumentType) ==
    [ZeroType EXCEPT !.kind = "ArrayDynamic", !.childTypes = <<argumentType>>]

MakeTupleType(argumentTypes) ==
    IF Len(argumentTypes) >= MaxUint16 THEN TypeErr
    ELSE TypeOk([ZeroType EXCEPT !.kind = "Tuple", !.childTypes = argumentTypes,
                                 !.staticLength = Uint16(Len(argumentTypes))])

RECURSIVE String(_)
\* Type.String
String(t) ==
    CASE t.kind = "Uint" -> "uint" \o FormatUint(t.bitSize)
      [] t.kind = "Byte" -> "byte"
      [] t.kind = "Ufixed" ->
            "ufixed" \o FormatUint(t.bitSize) \o "x" \o FormatUint(t.precision)
      [] t.kind = "Bool" -> "bool"
      [] t.kind = "ArrayStatic" ->
            String(t.childTypes[1]) \o "[" \o FormatUint(t.staticLength) \o "]"
      [] t.kind = "Address" -> "address"
      [] t.kind = "ArrayDynamic" -> String(t.childTypes[1]) \o "[]"
      [] t.kind = "String" -> "string"
      [] t.kind = "Tuple" ->
            "(" \o Join([i \in 1..Len(t.childTypes) |-> String(t.childTypes[i])], ",") \o ")"
      [] OTHER -> "<invalid type>"


(***************************************************************************)
(* The signature parser                                                    *)
(***************************************************************************)
\* staticArrayRegexp.FindStringSubmatch(str) for
\*   ^([a-z\d\[\](),]+)\[([1-9][\d]*)]$
\* The second group holds digits only, so the "[" before it is the last "["
\* of str and the match, when there is one, is unique.
staticArrayRegexp(s) ==
    LET k == LastIndex(s, "[")
        elem == Sub(s, 0, k)
        num == Sub(s, k + 1, Len(s) - 1)
    IN  IF /\ HasSuffix(s, "]")
           /\ k >= 1
           /\ \A i \in 0..(k - 1) : IsTypeChar(At(s, i))
           /\ IsPositiveDecimal(num)
        THEN <<s, elem, num>>
        ELSE <<>>

\* ufixedRegexp.FindStringSubmatch(str) for ^ufixed([1-9][\d]*)x([1-9][\d]*)$
\* Both groups hold digits only, so the "x" between them is the only "x"
\* after the prefix.
ufixedRegexp(s) ==
    LET rest == Sub(s, 6, Len(s))
        k == Index(rest, "x")
        size == Sub(rest, 0, k)
        prec == Sub(rest, k + 1, Len(rest))
    IN  IF /\ HasPrefix(s, "ufixed")
           /\ k >= 1
           /\ IsPositiveDecimal(size)
           /\ IsPositiveDecimal(prec)
        THEN <<s, size, prec>>
        ELSE <<>>

RECURSIVE forwardIndexLoop(_, _)
\* parseTupleContent, the inner loop: advance to the next comma or the end
forwardIndexLoop(s, forwardIndex) ==
    IF forwardIndex < Len(s) /\ At(s, forwardIndex) # ","
    THEN forwardIndexLoop(s, forwardIndex + 1)
    ELSE forwardIndex

RECURSIVE parenScanLoop(_, _, _, _)
\* parseTupleContent, the scan for the outermost parenthesis segments;
\* a segment is <<left, right>>
parenScanLoop(s, index, stack, parenSegmentRecord) ==
    IF index >= Len(s)
    THEN [err |-> Len(stack) # 0, record |-> parenSegmentRecord]
    ELSE IF At(s, index) = "("
    THEN parenScanLoop(s, index + 1, Append(stack, index), parenSegmentRecord)
    ELSE IF At(s, index) = ")"
    THEN IF Len(stack) = 0
         THEN [err |-> TRUE, record |-> parenSegmentRecord]
         ELSE LET leftParenIndex == stack[Len(stack)]
                  popped == SubSeq(stack, 1, Len(stack) - 1)
              IN  IF Len(popped) = 0
                  THEN LET last == forwardIndexLoop(s, index + 1) - 1
                       IN  parenScanLoop(s, last + 1, popped,
                               Append(parenSegmentRecord, <<leftParenIndex, last>>))
                  ELSE parenScanLoop(s, index + 1, popped, parenSegmentRecord)
    ELSE parenScanLoop(s, index + 1, stack, parenSegmentRecord)

RECURSIVE cutSegmentsLoop(_, _, _)
\* parseTupleContent, taking the parenthesis segments out, last one first
cutSegmentsLoop(strCopied, parenSegmentRecord, i) ==
    IF i < 0 THEN strCopied
    ELSE LET parenSeg == parenSegmentRecord[i + 1]
         IN  cutSegmentsLoop(
                 Sub(strCopied, 0, parenSeg[1])
                     \o Sub(strCopied, parenSeg[2] + 1, Len(strCopied)),
                 parenSegmentRecord, i - 1)

RECURSIVE fillSegmentsLoop(_, _, _, _, _)
\* parseTupleContent, putting the segments back in the empty places
fillSegmentsLoop(s, tupleStrSegs, parenSegmentRecord, index, parenSegCount) ==
    IF index >= Len(tupleStrSegs)
    THEN [err |-> FALSE, panic |-> FALSE, segs |-> tupleStrSegs]
    ELSE IF tupleStrSegs[index + 1] = ""
    THEN IF parenSegCount >= Len(parenSegmentRecord)
         THEN [err |-> TRUE, panic |-> TRUE, segs |-> <<>>]
         ELSE LET parenSeg == parenSegmentRecord[parenSegCount + 1]
              IN  fillSegmentsLoop(s,
                      [tupleStrSegs EXCEPT ![index + 1] =
                          Sub(s, parenSeg[1], parenSeg[2] + 1)],
                      parenSegmentRecord, index + 1, parenSegCount + 1)
    ELSE fillSegmentsLoop(s, tupleStrSegs, parenSegmentRecord, index + 1, parenSegCount)

parseTupleContent(s) ==
    LET failed == [err |-> TRUE, panic |-> FALSE, segs |-> <<>>]
    IN  IF Len(s) = 0 THEN [err |-> FALSE, panic |-> FALSE, segs |-> <<>>]
        ELSE IF HasSuffix(s, ",") \/ HasPrefix(s, ",") THEN failed
        ELSE IF Contains(s, ",,") THEN failed
        ELSE LET scan == parenScanLoop(s, 0, <<>>, <<>>)
             IN  IF scan.err THEN failed
                 ELSE LET strCopied == cutSegmentsLoop(s, scan.record, Len(scan.record) - 1)
                          tupleStrSegs == Split(strCopied, ",")
                      IN  fillSegmentsLoop(s, tupleStrSegs, scan.record, 0, 0)

RECURSIVE TypeOf(_)
TypeOf(s) ==
    IF HasSuffix(s, "[]")
    THEN LET arrayArgType == TypeOf(Sub(s, 0, Len(s) - 2))
         IN  IF arrayArgType.err THEN arrayArgType
             ELSE TypeOk(makeDynamicArrayType(arrayArgType.t))
    ELSE IF HasSuffix(s, "]")
    THEN LET stringMatches == staticArrayRegexp(s)
         IN  IF Len(stringMatches) # 3 THEN TypeErr
             ELSE LET arrayLength == ParseUint16(stringMatches[3])
                  IN  IF arrayLength.err THEN TypeErr
                      ELSE LET arrayType == TypeOf(stringMatches[2])
                           IN  IF arrayType.err THEN arrayType
                               ELSE TypeOk(makeStaticArrayType(arrayType.t,
                                                               Uint16(arrayLength.n)))
    ELSE IF HasPrefix(s, "uint")
    THEN LET typeSize == ParseUint16(Sub(s, 4, Len(s)))
         IN  IF typeSize.err THEN TypeErr ELSE makeUintType(typeSize.n)
    ELSE IF s = "byte" THEN TypeOk(byteType)
    ELSE IF HasPrefix(s, "ufixed")
    THEN LET stringMatches == ufixedRegexp(s)
         IN  IF Len(stringMatches) # 3 THEN TypeErr
             ELSE LET ufixedSize == ParseUint16(stringMatches[2])
                      ufixedPrecision == ParseUint16(stringMatches[3])
                  IN  IF ufixedSize.err THEN TypeErr
                      ELSE IF ufixedPrecision.err THEN TypeErr
                      ELSE makeUfixedType(ufixedSize.n, ufixedPrecision.n)
    ELSE IF s = "bool" THEN TypeOk(boolType)
    ELSE IF s = "address" THEN TypeOk(addressType)
    ELSE IF s = "string" THEN TypeOk(stringType)
    ELSE IF Len(s) >= 2 /\ At(s, 0) = "(" /\ At(s, Len(s) - 1) = ")"
    THEN IF Count(s, "(") # Count(s, ")") THEN TypeErr
         ELSE IF Count(s, "[") # Count(s, "]") THEN TypeErr
         ELSE LET tupleContent == parseTupleContent(Sub(s, 1, Len(s) - 1))
              IN  IF tupleContent.err
                  THEN (IF tupleContent.panic THEN TypePanic ELSE TypeErr)
                  ELSE LET ti == [i \in 1..Len(tupleContent.segs) |->
                                     TypeOf(tupleContent.segs[i])]
                           bad == {i \in 1..Len(ti) : ti[i].err}
                       IN  IF bad # {}
                           THEN ti[CHOOSE i \in bad : \A j \in bad : i <= j]
                           ELSE MakeTupleType([i \in 1..Len(ti) |-> ti[i].t])
    ELSE TypeErr

(***************************************************************************)
(* Structural queries on a Type                                            *)
(***************************************************************************)
RECURSIVE Equal(_, _)

\* Equal as it would be without the comparison of staticLength
EqualNoLength(t, t0) ==
    IF t.kind # t0.kind THEN FALSE
    ELSE IF t.precision # t0.precision \/ t.bitSize # t0.bitSize THEN FALSE
    ELSE IF Len(t.childTypes) # Len(t0.childTypes) THEN FALSE
    ELSE \A i \in 1..Len(t.childTypes) : Equal(t.childTypes[i], t0.childTypes[i])

Equal(t, t0) ==
    IF t.kind # t0.kind THEN FALSE
    ELSE IF t.precision # t0.precision \/ t.bitSize # t0.bitSize THEN FALSE
    ELSE IF t.staticLength # t0.staticLength THEN FALSE
    ELSE IF Len(t.childTypes) # Len(t0.childTypes) THEN FALSE
    ELSE \A i \in 1..Len(t.childTypes) : Equal(t.childTypes[i], t0.childTypes[i])

\* IsDynamic as it would be if it looked at the children's kinds only
IsDynamicShallow(t) ==
    IF t.kind \in {"ArrayDynamic", "String"} THEN TRUE
    ELSE \E i \in 1..Len(t.childTypes) : t.childTypes[i].kind \in {"ArrayDynamic", "String"}

RECURSIVE IsDynamic(_)
IsDynamic(t) ==
    IF t.kind \in {"ArrayDynamic", "String"} THEN TRUE
    ELSE \E i \in 1..Len(t.childTypes) : IsDynamic(t.childTypes[i])

RECURSIVE findBoolLRLoop(_, _, _, _)
\* findBoolLR's loop as it would be without the step back from the first
\* child that is no Bool
findBoolLRLoopNoStepBack(typeList, index, delta, until) ==
    LET curr == index + delta * until
    IN  IF typeList[curr + 1].kind = "Bool"
        THEN IF curr # Len(typeList) - 1 /\ delta > 0
             THEN findBoolLRLoop(typeList, index, delta, until + 1)
             ELSE IF curr > 0 /\ delta < 0
             THEN findBoolLRLoop(typeList, index, delta, until + 1)
             ELSE until
        ELSE until

\* findBoolLR's loop; typeList is indexed from 0 in the code, from 1 here
findBoolLRLoop(typeList, index, delta, until) ==
    LET curr == index + delta * until
    IN  IF typeList[curr + 1].kind = "Bool"
        THEN IF curr # Len(typeList) - 1 /\ delta > 0
             THEN findBoolLRLoop(typeList, index, delta, until + 1)
             ELSE IF curr > 0 /\ delta < 0
             THEN findBoolLRLoop(typeList, index, delta, until + 1)
             ELSE until
        ELSE until - 1

findBoolLR(typeList, index, delta) == findBoolLRLoop(typeList, index, delta, 0)

RECURSIVE ByteLen(_), byteLenTupleLoop(_, _, _)

\* the Tuple case's loop as it would be if a child's error were dropped
byteLenTupleLoopNoErr(childTypes, i, size) ==
    IF i >= Len(childTypes) THEN [err |-> FALSE, n |-> size]
    ELSE IF childTypes[i + 1].kind = "Bool"
    THEN LET after == findBoolLR(childTypes, i, 1)
             boolNum == after + 1
         IN  byteLenTupleLoop(childTypes, i + after + 1, size + (boolNum + 7) \div 8)
    ELSE byteLenTupleLoop(childTypes, i + 1, size + ByteLen(childTypes[i + 1]).n)

\* the Tuple case's loop as it would be if every Bool child took a byte of
\* its own
byteLenTupleLoopPerBool(childTypes, i, size) ==
    IF i >= Len(childTypes) THEN [err |-> FALSE, n |-> size]
    ELSE IF childTypes[i + 1].kind = "Bool"
    THEN byteLenTupleLoop(childTypes, i + 1, size + singleBoolSize)
    ELSE LET childByteSize == ByteLen(childTypes[i + 1])
         IN  IF childByteSize.err THEN [err |-> TRUE, n |-> -1]
             ELSE byteLenTupleLoop(childTypes, i + 1, size + childByteSize.n)

\* Type.ByteLen, the Tuple case's loop
byteLenTupleLoop(childTypes, i, size) ==
    IF i >= Len(childTypes) THEN [err |-> FALSE, n |-> size]
    ELSE IF childTypes[i + 1].kind = "Bool"
    THEN LET after == findBoolLR(childTypes, i, 1)
             boolNum == after + 1
         IN  byteLenTupleLoop(childTypes, i + after + 1, size + (boolNum + 7) \div 8)
    ELSE LET childByteSize == ByteLen(childTypes[i + 1])
         IN  IF childByteSize.err THEN [err |-> TRUE, n |-> -1]
             ELSE byteLenTupleLoop(childTypes, i + 1, size + childByteSize.n)

ByteLen(t) ==
    CASE t.kind = "Address" -> [err |-> FALSE, n |-> addressByteSize]
      [] t.kind = "Byte" -> [err |-> FALSE, n |-> singleByteSize]
      [] t.kind \in {"Uint", "Ufixed"} -> [err |-> FALSE, n |-> t.bitSize \div 8]
      [] t.kind = "Bool" -> [err |-> FALSE, n |-> singleBoolSize]
      [] t.kind = "ArrayStatic" ->
            IF t.childTypes[1].kind = "Bool"
            THEN [err |-> FALSE, n |-> Uint16(t.staticLength + 7) \div 8]
            ELSE LET elemByteLen == ByteLen(t.childTypes[1])
                 IN  IF elemByteLen.err THEN [err |-> TRUE, n |-> -1]
                     ELSE [err |-> FALSE, n |-> t.staticLength * elemByteLen.n]
      [] t.kind = "Tuple" -> byteLenTupleLoop(t.childTypes, 0, 0)
      [] OTHER -> [err |-> TRUE, n |-> -1]


(***************************************************************************)
(* Go values and byte slices                                               *)
(*                                                                         *)
(* A Go interface{} value is a record [tag, v]: tag names its dynamic Go   *)
(* type, v is a BOOLEAN for "bool", an integer for the integer types, a    *)
(* sequence of bytes for "string" and "[]byte", a sequence of values for   *)
(* "[]interface{}", the length n for the zero array "[n]byte{}".           *)
(*                                                                         *)
(* A []byte handed to Decode is a record [b, x]: b holds the len(s) bytes  *)
(* of the slice, x the bytes of its backing array between len(s) and       *)
(* cap(s), which a slice expression s[lo:hi] with hi > len(s) exposes.     *)
(***************************************************************************)
IntTags == {"int", "uint8", "uint16", "uint32", "uint64", "*big.Int"}

GoBool(b) == [tag |-> "bool", v |-> b]
GoUint8(n) == [tag |-> "uint8", v |-> n]
GoInt(n) == [tag |-> "int", v |-> n]
GoString(bytes) == [tag |-> "string", v |-> bytes]
GoBytes(bytes) == [tag |-> "[]byte", v |-> bytes]
\* the zero value of the Go array type [n]byte, held as its length
GoZeroByteArray(n) == [tag |-> "[n]byte{}", v |-> n]
GoSlice(values) == [tag |-> "[]interface{}", v |-> values]

MkSlice(bytes, hidden) == [b |-> bytes, x |-> hidden]
SliceLen(s) == Len(s.b)
SliceCap(s) == Len(s.b) + Len(s.x)

\* s[lo:hi] on a []byte: panics when hi > cap(s) or lo > hi
SliceOf(s, lo, hi) ==
    LET full == s.b \o s.x
    IN  IF lo < 0 \/ lo > hi \/ hi > Len(full)
        THEN [panic |-> TRUE, s |-> MkSlice(<<>>, <<>>)]
        ELSE [panic |-> FALSE,
              s |-> MkSlice(SubSeq(full, lo + 1, hi), SubSeq(full, hi + 1, Len(full)))]

\* s[lo:] on a []byte: panics when lo > len(s)
SliceFrom(s, lo) ==
    IF lo > Len(s.b) THEN [panic |-> TRUE, s |-> MkSlice(<<>>, <<>>)]
    ELSE SliceOf(s, lo, Len(s.b))

\* PutUint16 as it would be with the low byte first
PutUint16LittleEndian(n) == <<n % 256, (n \div 256) % 256>>

\* binary.BigEndian.PutUint16
PutUint16(n) == <<(n \div 256) % 256, n % 256>>

\* binary.BigEndian.Uint16
BigEndianUint16(bytes) == bytes[1] * 256 + bytes[2]

RECURSIVE BitLen(_)
\* big.Int.BitLen: the number of bits of a non-negative integer
BitLen(n) == IF n = 0 THEN 0 ELSE 1 + BitLen(n \div 2)

RECURSIVE FillBytesLittleEndian(_, _)
\* FillBytes as it would be with the least significant byte first
FillBytesLittleEndian(x, n) ==
    IF n = 0 THEN <<>> ELSE <<x % 256>> \o FillBytesLittleEndian(x \div 256, n - 1)

RECURSIVE FillBytes(_, _)
\* big.Int.FillBytes into a buffer of n bytes: big-endian, zero-extended
FillBytes(x, n) == IF n = 0 THEN <<>> ELSE Append(FillBytes(x \div 256, n - 1), x % 256)

RECURSIVE SetBytes(_)
\* big.Int.SetBytes: the big-endian unsigned integer of the bytes
SetBytes(bytes) ==
    IF Len(bytes) = 0 THEN 0
    ELSE SetBytes(SubSeq(bytes, 1, Len(bytes) - 1)) * 256 + bytes[Len(bytes)]

(***************************************************************************)
(* The binary codec: encoding                                              *)
(***************************************************************************)
EncErr == [err |-> TRUE, bytes |-> <<>>]
EncOk(bytes) == [err |-> FALSE, bytes |-> bytes]

\* Type.typeCastToTuple(tupLen ...int); tupLen is the sequence of the
\* variadic arguments
typeCastToTuple(t, tupLen) ==
    CASE t.kind = "String" ->
            IF Len(tupLen) # 1 THEN TypeErr
            ELSE MakeTupleType([i \in 1..tupLen[1] |-> byteType])
      [] t.kind = "Address" ->
            MakeTupleType([i \in 1..addressByteSize |-> byteType])
      [] t.kind = "ArrayStatic" ->
            MakeTupleType([i \in 1..t.staticLength |-> t.childTypes[1]])
      [] t.kind = "ArrayDynamic" ->
            IF Len(tupLen) # 1 THEN TypeErr
            ELSE MakeTupleType([i \in 1..tupLen[1] |-> t.childTypes[1]])
      [] OTHER -> TypeErr

\* encodeInt: the comparison with 1 << bitSize is stated on the bit length,
\* bigInt >= 2^bitSize being bigInt.BitLen() > bitSize
encodeInt(intValue, bitSize) ==
    IF intValue.tag \notin IntTags THEN EncErr
    ELSE IF intValue.v < 0 THEN EncErr
    ELSE IF BitLen(intValue.v) > bitSize THEN EncErr
    ELSE EncOk(FillBytes(intValue.v, bitSize \div 8))

\* inferToSlice: every Go slice or array becomes a []interface{}
inferToSlice(val) ==
    CASE val.tag = "[]interface{}" -> [err |-> FALSE, values |-> val.v]
      [] val.tag = "[]byte" ->
            [err |-> FALSE, values |-> [i \in 1..Len(val.v) |-> GoUint8(val.v[i])]]
      [] val.tag = "[n]byte{}" ->
            [err |-> FALSE, values |-> [i \in 1..val.v |-> GoUint8(0)]]
      [] OTHER -> [err |-> TRUE, values |-> <<>>]

RECURSIVE compressBoolsLoop(_, _, _)

\* compressBools' loop as it would be with bit i, not bit 7-i, for bool i
compressBoolsLoopLowFirst(boolSlice, i, res) ==
    IF i >= Len(boolSlice) THEN [err |-> FALSE, byte |-> res]
    ELSE IF boolSlice[i + 1].tag # "bool" THEN [err |-> TRUE, byte |-> 0]
    ELSE compressBoolsLoop(boolSlice, i + 1,
             IF boolSlice[i + 1].v THEN res + 2 ^ i ELSE res)

compressBoolsLoop(boolSlice, i, res) ==
    IF i >= Len(boolSlice) THEN [err |-> FALSE, byte |-> res]
    ELSE IF boolSlice[i + 1].tag # "bool" THEN [err |-> TRUE, byte |-> 0]
    ELSE compressBoolsLoop(boolSlice, i + 1,
             IF boolSlice[i + 1].v THEN res + 2 ^ (7 - i) ELSE res)

\* compressBools: bit 7-i of the result is the i-th bool
compressBools(boolSlice) ==
    IF Len(boolSlice) > 8 THEN [err |-> TRUE, byte |-> 0]
    ELSE compressBoolsLoop(boolSlice, 0, 0)

RECURSIVE FlatLen(_)
\* the sum of the lengths of a list of byte strings
FlatLen(chunks) ==
    IF Len(chunks) = 0 THEN 0 ELSE Len(chunks[1]) + FlatLen(Tail(chunks))

RECURSIVE Flatten(_)
\* the concatenation of a list of byte strings
Flatten(chunks) ==
    IF Len(chunks) = 0 THEN <<>> ELSE chunks[1] \o Flatten(Tail(chunks))

RECURSIVE adjustHeadsLoop(_, _, _, _, _, _)
\* encodeTuple, the second loop: write each dynamic child's offset
adjustHeadsLoop(heads, tails, isDynamicIndex, headLength, i, tailCurrLength) ==
    IF i >= Len(heads) THEN [err |-> FALSE, heads |-> heads]
    ELSE IF i \in isDynamicIndex
    THEN LET headValue == headLength + tailCurrLength
         IN  IF headValue >= abiEncodingLengthLimit THEN [err |-> TRUE, heads |-> heads]
             ELSE adjustHeadsLoop([heads EXCEPT ![i + 1] = PutUint16(Uint16(headValue))],
                      tails, isDynamicIndex, headLength, i + 1,
                      tailCurrLength + Len(tails[i + 1]))
    ELSE adjustHeadsLoop(heads, tails, isDynamicIndex, headLength, i + 1,
             tailCurrLength + Len(tails[i + 1]))

RECURSIVE boolBranchIndices(_, _)
\* the values of i (from 0) with which the loop over childT, in encodeTuple
\* and in decodeTuple alike, enters its Bool branch when no iteration
\* returns: the branch ends with i += after, the loop adds one
boolBranchIndices(childT, i) ==
    IF i >= Len(childT) THEN {}
    ELSE IF IsDynamic(childT[i + 1]) THEN boolBranchIndices(childT, i + 1)
    ELSE IF childT[i + 1].kind = "Bool"
    THEN LET after0 == findBoolLR(childT, i, 1)
             after == IF after0 > 7 THEN 7 ELSE after0
         IN  {i} \cup boolBranchIndices(childT, i + after + 1)
    ELSE boolBranchIndices(childT, i + 1)

RECURSIVE Encode(_, _), encodeTuple(_, _), encodeTupleLoop(_, _, _, _, _, _)

\* encodeTuple, the first loop: heads[i] and tails[i] of every child;
\* isDynamicIndex is the set of indices the map holds true for
encodeTupleLoop(values, childT, i, heads, tails, isDynamicIndex) ==
    IF i >= Len(childT)
    THEN [err |-> FALSE, heads |-> heads, tails |-> tails, isDynamicIndex |-> isDynamicIndex]
    ELSE IF IsDynamic(childT[i + 1])
    THEN LET tailEncoding == Encode(childT[i + 1], values[i + 1])
         IN  IF tailEncoding.err
             THEN [err |-> TRUE, heads |-> heads, tails |-> tails,
                   isDynamicIndex |-> isDynamicIndex]
             ELSE encodeTupleLoop(values, childT, i + 1,
                      [heads EXCEPT ![i + 1] = <<0, 0>>],
                      [tails EXCEPT ![i + 1] = tailEncoding.bytes],
                      isDynamicIndex \cup {i})
    ELSE IF childT[i + 1].kind = "Bool"
    THEN LET before == findBoolLR(childT, i, -1)
             after0 == findBoolLR(childT, i, 1)
             after == IF after0 > 7 THEN 7 ELSE after0
         IN  IF before % 8 # 0
             THEN [err |-> TRUE, heads |-> heads, tails |-> tails,
                   isDynamicIndex |-> isDynamicIndex]
             ELSE LET compressed == compressBools(SubSeq(values, i + 1, i + after + 1))
                  IN  IF compressed.err
                      THEN [err |-> TRUE, heads |-> heads, tails |-> tails,
                            isDynamicIndex |-> isDynamicIndex]
                      ELSE encodeTupleLoop(values, childT, i + after + 1,
                               [heads EXCEPT ![i + 1] = <<compressed.byte>>],
                               tails, isDynamicIndex \ {i + after})
    ELSE LET encodeTi == Encode(childT[i + 1], values[i + 1])
         IN  IF encodeTi.err
             THEN [err |-> TRUE, heads |-> heads, tails |-> tails,
                   isDynamicIndex |-> isDynamicIndex]
             ELSE encodeTupleLoop(values, childT, i + 1,
                      [heads EXCEPT ![i + 1] = encodeTi.bytes],
                      tails, isDynamicIndex \ {i})

encodeTuple(val, childT) ==
    IF Len(childT) >= abiEncodingLengthLimit THEN EncErr
    ELSE LET inferred == inferToSlice(val)
         IN  IF inferred.err THEN EncErr
             ELSE IF Len(inferred.values) # Len(childT) THEN EncErr
             ELSE LET empty == [i \in 1..Len(childT) |-> <<>>]
                      first == encodeTupleLoop(inferred.values, childT, 0, empty, empty, {})
                  IN  IF first.err THEN EncErr
                      ELSE LET headLength == FlatLen(first.heads)
                               adjusted == adjustHeadsLoop(first.heads, first.tails,
                                               first.isDynamicIndex, headLength, 0, 0)
                           IN  IF adjusted.err THEN EncErr
                               ELSE EncOk(Flatten(adjusted.heads) \o Flatten(first.tails))

\* Type.Encode
Encode(t, val) ==
    CASE t.kind \in {"Uint", "Ufixed"} -> encodeInt(val, t.bitSize)
      [] t.kind = "Bool" ->
            IF val.tag # "bool" THEN EncErr
            ELSE IF val.v THEN EncOk(<<128>>) ELSE EncOk(<<0>>)
      [] t.kind = "Byte" ->
            IF val.tag # "uint8" THEN EncErr ELSE EncOk(<<val.v>>)
      [] t.kind \in {"ArrayStatic", "Address"} ->
            LET castedType == typeCastToTuple(t, <<>>)
            IN  IF castedType.err THEN EncErr ELSE Encode(castedType.t, val)
      [] t.kind = "ArrayDynamic" ->
            LET dynamicArray == inferToSlice(val)
            IN  IF dynamicArray.err THEN EncErr
                ELSE LET castedType == typeCastToTuple(t, <<Len(dynamicArray.values)>>)
                     IN  IF castedType.err THEN EncErr
                         ELSE LET lengthEncode == PutUint16(Uint16(Len(dynamicArray.values)))
                                  enc == Encode(castedType.t, val)
                              IN  IF enc.err THEN EncErr
                                  ELSE EncOk(lengthEncode \o enc.bytes)
      [] t.kind = "String" ->
            IF val.tag # "string" THEN EncErr
            ELSE LET byteValue == val.v
                     castedType == typeCastToTuple(t, <<Len(byteValue)>>)
                 IN  IF castedType.err THEN EncErr
                     ELSE LET lengthEncode == PutUint16(Uint16(Len(byteValue)))
                              enc == Encode(castedType.t, GoBytes(byteValue))
                          IN  IF enc.err THEN EncErr
                              ELSE EncOk(lengthEncode \o enc.bytes)
      [] t.kind = "Tuple" -> encodeTuple(val, t.childTypes)
      [] OTHER -> EncErr

(***************************************************************************)
(* The binary codec: decoding                                              *)
(***************************************************************************)
\* a (value, error) pair; panic marks a run-time panic instead of a return
DecErr == [err |-> TRUE, panic |-> FALSE, v |-> GoSlice(<<>>)]
DecPanic == [err |-> TRUE, panic |-> TRUE, v |-> GoSlice(<<>>)]
DecOk(val) == [err |-> FALSE, panic |-> FALSE, v |-> val]

\* decodeUint: the Go type of the result is the narrowest that holds bitSize
decodeUint(encoded, bitSize) ==
    IF SliceLen(encoded) # bitSize \div 8 THEN DecErr
    ELSE LET n == bitSize \div 8
             x == SetBytes(encoded.b)
         IN  CASE n = 1 -> DecOk(GoUint8(encoded.b[1]))
               [] n = 2 -> DecOk([tag |-> "uint16", v |-> x])
               [] n \in {3, 4} -> DecOk([tag |-> "uint32", v |-> x])
               [] n \in {5, 6, 7, 8} -> DecOk([tag |-> "uint64", v |-> x])
               [] OTHER -> DecOk([tag |-> "*big.Int", v |-> x])

RECURSIVE unpackBoolsLoop(_, _, _)
\* decodeTuple, the loop over the bits of one bool byte: bit 7-boolIndex is
\* bool number boolIndex of the chunk
unpackBoolsLoop(byte, boolIndex, after) ==
    IF boolIndex > after THEN <<>>
    ELSE LET boolMask == 128 \div (2 ^ boolIndex)
             piece == IF (byte \div boolMask) % 2 = 1
                      THEN MkSlice(<<128>>, <<>>) ELSE MkSlice(<<0>>, <<>>)
         IN  <<piece>> \o unpackBoolsLoop(byte, boolIndex + 1, after)

RECURSIVE partitionLoop(_, _, _, _, _, _)
\* decodeTuple, the first loop: split the heads into valuePartition and
\* collect the offsets of the dynamic children in dynamicSegments
partitionLoop(encoded, childT, i, iterIndex, dynamicSegments, valuePartition) ==
    LET stop(e, p) == [err |-> e, panic |-> p, iterIndex |-> iterIndex,
                       dynamicSegments |-> dynamicSegments,
                       valuePartition |-> valuePartition]
        \* the check that ends every iteration, then the next iteration
        step(iNow, iterNow, segs, parts) ==
            IF iNow # Len(childT) - 1 /\ iterNow >= SliceLen(encoded)
            THEN stop(TRUE, FALSE)
            ELSE partitionLoop(encoded, childT, iNow + 1, iterNow, segs, parts)
    IN  IF i >= Len(childT)
        THEN stop(FALSE, FALSE)
        ELSE IF IsDynamic(childT[i + 1])
        THEN LET rest == SliceFrom(encoded, iterIndex)
             IN  IF rest.panic THEN stop(TRUE, TRUE)
                 ELSE IF SliceLen(rest.s) < lengthEncodeByteSize THEN stop(TRUE, FALSE)
                 ELSE LET head == SliceOf(encoded, iterIndex, iterIndex + lengthEncodeByteSize)
                      IN  IF head.panic THEN stop(TRUE, TRUE)
                          ELSE step(i, iterIndex + lengthEncodeByteSize,
                                    Append(dynamicSegments, BigEndianUint16(head.s.b)),
                                    Append(valuePartition, MkSlice(<<>>, <<>>)))
        ELSE IF childT[i + 1].kind = "Bool"
        THEN LET before == findBoolLR(childT, i, -1)
                 after0 == findBoolLR(childT, i, 1)
                 after == IF after0 > 7 THEN 7 ELSE after0
             IN  IF before % 8 = 0
                 THEN IF iterIndex >= SliceLen(encoded) THEN stop(TRUE, TRUE)
                      ELSE step(i + after, iterIndex + 1, dynamicSegments,
                                valuePartition
                                    \o unpackBoolsLoop(encoded.b[iterIndex + 1], 0, after))
                 ELSE stop(TRUE, FALSE)
        ELSE LET currLen == ByteLen(childT[i + 1])
             IN  IF currLen.err THEN stop(TRUE, FALSE)
                 ELSE LET piece == SliceOf(encoded, iterIndex, iterIndex + currLen.n)
                      IN  IF piece.panic THEN stop(TRUE, TRUE)
                          ELSE step(i, iterIndex + currLen.n, dynamicSegments,
                                    Append(valuePartition, piece.s))

RECURSIVE fillDynamicLoop(_, _, _, _, _, _)
\* decodeTuple, the loop that gives every dynamic child the bytes between
\* its offset and the next one
fillDynamicLoop(encoded, childT, dynamicSegments, valuePartition, i, segIndex) ==
    IF i >= Len(childT) THEN [panic |-> FALSE, valuePartition |-> valuePartition]
    ELSE IF IsDynamic(childT[i + 1])
    THEN LET piece == SliceOf(encoded, dynamicSegments[segIndex + 1],
                              dynamicSegments[segIndex + 2])
         IN  IF piece.panic \/ i >= Len(valuePartition)
             THEN [panic |-> TRUE, valuePartition |-> valuePartition]
             ELSE fillDynamicLoop(encoded, childT, dynamicSegments,
                      [valuePartition EXCEPT ![i + 1] = piece.s], i + 1, segIndex + 1)
    ELSE fillDynamicLoop(encoded, childT, dynamicSegments, valuePartition, i + 1, segIndex)

RECURSIVE Decode(_, _), decodeTuple(_, _), decodeValuesLoop(_, _, _, _)

\* decodeTuple, the last loop: decode every child from its partition
decodeValuesLoop(childT, valuePartition, i, values) ==
    IF i >= Len(childT) THEN DecOk(GoSlice(values))
    ELSE IF i >= Len(valuePartition) THEN DecPanic
    ELSE LET vi == Decode(childT[i + 1], valuePartition[i + 1])
         IN  IF vi.err THEN vi
             ELSE decodeValuesLoop(childT, valuePartition, i + 1, Append(values, vi.v))

decodeTuple(encoded, childT) ==
    LET first == partitionLoop(encoded, childT, 0, 0, <<>>, <<>>)
    IN  IF first.err THEN (IF first.panic THEN DecPanic ELSE DecErr)
        ELSE LET hasDynamic == Len(first.dynamicSegments) > 0
                 dynamicSegments == IF hasDynamic
                                    THEN Append(first.dynamicSegments, SliceLen(encoded))
                                    ELSE first.dynamicSegments
                 iterIndex == IF hasDynamic THEN SliceLen(encoded) ELSE first.iterIndex
             IN  IF iterIndex < SliceLen(encoded) THEN DecErr
                 ELSE IF \E k \in 1..(Len(dynamicSegments) - 1) :
                             dynamicSegments[k] > dynamicSegments[k + 1]
                 THEN DecErr
                 ELSE LET filled == fillDynamicLoop(encoded, childT, dynamicSegments,
                                        first.valuePartition, 0, 0)
                      IN  IF filled.panic THEN DecPanic
                          ELSE decodeValuesLoop(childT, filled.valuePartition, 0, <<>>)

\* Type.Decode
Decode(t, encoded) ==
    CASE t.kind \in {"Uint", "Ufixed"} -> decodeUint(encoded, t.bitSize)
      [] t.kind = "Bool" ->
            IF SliceLen(encoded) # 1 THEN DecErr
            ELSE IF encoded.b[1] = 0 THEN DecOk(GoBool(FALSE))
            ELSE IF encoded.b[1] = 128 THEN DecOk(GoBool(TRUE))
            ELSE DecErr
      [] t.kind = "Byte" ->
            IF SliceLen(encoded) # 1 THEN DecErr ELSE DecOk(GoUint8(encoded.b[1]))
      [] t.kind = "ArrayStatic" ->
            LET castedType == typeCastToTuple(t, <<>>)
            IN  IF castedType.err THEN DecErr ELSE Decode(castedType.t, encoded)
      [] t.kind = "Address" ->
            IF SliceLen(encoded) # addressByteSize THEN DecErr
            ELSE DecOk(GoBytes(encoded.b))
      [] t.kind = "ArrayDynamic" ->
            IF SliceLen(encoded) < lengthEncodeByteSize THEN DecErr
            ELSE LET dynamicLen == BigEndianUint16(SubSeq(encoded.b, 1, lengthEncodeByteSize))
                     castedType == typeCastToTuple(t, <<dynamicLen>>)
                 IN  IF castedType.err THEN DecErr
                     ELSE Decode(castedType.t, SliceFrom(encoded, lengthEncodeByteSize).s)
      [] t.kind = "String" ->
            IF SliceLen(encoded) < lengthEncodeByteSize THEN DecErr
            ELSE LET byteLen == BigEndianUint16(SubSeq(encoded.b, 1, lengthEncodeByteSize))
                     rest == SliceFrom(encoded, lengthEncodeByteSize).s
                 IN  IF SliceLen(rest) # byteLen THEN DecErr
                     ELSE DecOk(GoString(rest.b))
      [] t.kind = "Tuple" -> decodeTuple(encoded, t.childTypes)
      [] OTHER -> DecErr

(***************************************************************************)
(* Package address, and the text formats of the Go library that json.go    *)
(* calls. A text is the sequence of its bytes. Of the texts the library    *)
(* reads, the ones it writes itself are covered: no white space, no        *)
(* exponents, number prefixes or surrogate escapes.                        *)
(***************************************************************************)
nullText == <<110, 117, 108, 108>>
trueText == <<116, 114, 117, 101>>
falseText == <<102, 97, 108, 115, 101>>

RECURSIVE Concat(_)
\* the concatenation of a list of texts, by halves
Concat(chunks) ==
    IF Len(chunks) = 0 THEN <<>>
    ELSE IF Len(chunks) = 1 THEN chunks[1]
    ELSE LET half == Len(chunks) \div 2
         IN  Concat(SubSeq(chunks, 1, half)) \o Concat(SubSeq(chunks, half + 1, Len(chunks)))

\* bit k (from 0, the most significant of the first unit first) of a list
\* of units of the given width; 0 behind the list
BitOf(units, width, k) ==
    IF k \div width >= Len(units) THEN 0
    ELSE (units[(k \div width) + 1] \div (2 ^ (width - 1 - (k % width)))) % 2

\* the number held in the count bits from bit k on
BitsOf(units, width, k, count) ==
    LET bit(j) == IF j < count THEN BitOf(units, width, k + j) * 2 ^ (count - 1 - j) ELSE 0
    IN  bit(0) + bit(1) + bit(2) + bit(3) + bit(4) + bit(5) + bit(6) + bit(7)

RECURSIVE FormatDecimal(_)
\* big.Int.String, strconv.FormatUint: the decimal digits of n >= 0
FormatDecimal(n) ==
    IF n < 10 THEN <<48 + n>> ELSE Append(FormatDecimal(n \div 10), 48 + (n % 10))

IsDigits(text) == Len(text) > 0 /\ \A i \in 1..Len(text) : text[i] \in 48..57

RECURSIVE ParseDecimal(_)
\* the number a list of decimal digits stands for
ParseDecimal(text) ==
    IF Len(text) = 0 THEN 0
    ELSE ParseDecimal(SubSeq(text, 1, Len(text) - 1)) * 10 + (text[Len(text)] - 48)

\* the JSON grammar of a number, exponents left out: -?(0|[1-9][0-9]*)(\.[0-9]+)?
IsJSONNumber(text) ==
    LET unsigned == IF Len(text) > 0 /\ text[1] = 45 THEN Tail(text) ELSE text
        points == {i \in 1..Len(unsigned) : unsigned[i] = 46}
        whole == IF points = {} THEN unsigned
                 ELSE SubSeq(unsigned, 1, (CHOOSE i \in points : \A j \in points : i <= j) - 1)
        fraction == SubSeq(unsigned, Len(whole) + 2, Len(unsigned))
    IN  /\ IsDigits(whole)
        /\ Len(whole) = 1 \/ whole[1] # 48
        /\ points # {} => IsDigits(fraction)

\* utf8.DecodeRune: the width of the rune that starts at bytes[j], 0 when
\* bytes[j] starts no valid encoding
utf8Width(bytes, j) ==
    LET at(k) == IF j + k <= Len(bytes) THEN bytes[j + k] ELSE 0
        cont(k) == at(k) \in 128..191
    IN  CASE at(0) < 128 -> 1
          [] at(0) \in 194..223 -> IF cont(1) THEN 2 ELSE 0
          [] at(0) = 224 -> IF at(1) \in 160..191 /\ cont(2) THEN 3 ELSE 0
          [] at(0) = 237 -> IF at(1) \in 128..159 /\ cont(2) THEN 3 ELSE 0
          [] at(0) \in 225..239 -> IF cont(1) /\ cont(2) THEN 3 ELSE 0
          [] at(0) = 240 -> IF at(1) \in 144..191 /\ cont(2) /\ cont(3) THEN 4 ELSE 0
          [] at(0) \in 241..243 -> IF cont(1) /\ cont(2) /\ cont(3) THEN 4 ELSE 0
          [] at(0) = 244 -> IF at(1) \in 128..143 /\ cont(2) /\ cont(3) THEN 4 ELSE 0
          [] OTHER -> 0

\* bytes[i] belongs to a valid rune: one starts at most 3 bytes before it
\* and reaches it
InRune(bytes, i) ==
    \E j \in 1..i : i - j <= 3 /\ utf8Width(bytes, j) > i - j

\* utf8.EncodeRune for a rune below 0x10000; a surrogate becomes U+FFFD
EncodeRune(r) ==
    CASE r < 128 -> <<r>>
      [] r < 2048 -> <<192 + (r \div 64), 128 + (r % 64)>>
      [] r \in 55296..57343 -> <<239, 191, 189>>
      [] OTHER -> <<224 + (r \div 4096), 128 + ((r \div 64) % 64), 128 + (r % 64)>>

hexDigits == <<48, 49, 50, 51, 52, 53, 54, 55, 56, 57, 97, 98, 99, 100, 101, 102>>

\* the value of a hexadecimal digit of either case, -1 for another byte
HexValue(c) ==
    CASE c \in 48..57 -> c - 48
      [] c \in 97..102 -> c - 87
      [] c \in 65..70 -> c - 55
      [] OTHER -> -1

\* the escape \u00XX of a byte
UnicodeEscape(b) == <<92, 117, 48, 48, hexDigits[(b \div 16) + 1], hexDigits[(b % 16) + 1]>>

\* json.Marshal of a string: quotes, backslashes, control characters and
\* < > & are escaped, U+2028 and U+2029 are escaped, a byte that belongs to
\* no valid rune becomes \ufffd (the control characters \b and \f, which
\* Go releases write differently, are written as \u00XX)
marshalString(bytes) ==
    LET separator(i) == /\ i >= 1 /\ i + 2 <= Len(bytes)
                        /\ bytes[i] = 226 /\ bytes[i + 1] = 128 /\ bytes[i + 2] \in {168, 169}
        chunk(i) ==
            LET b == bytes[i]
            IN  CASE b = 34 -> <<92, 34>>
                  [] b = 92 -> <<92, 92>>
                  [] b = 10 -> <<92, 110>>
                  [] b = 13 -> <<92, 114>>
                  [] b = 9 -> <<92, 116>>
                  [] b < 32 \/ b \in {60, 62, 38} -> UnicodeEscape(b)
                  [] b >= 128 /\ ~InRune(bytes, i) -> <<92, 117, 102, 102, 102, 100>>
                  [] separator(i) -> <<92, 117, 50, 48, 50, hexDigits[bytes[i + 2] - 159]>>
                  [] separator(i - 1) \/ separator(i - 2) -> <<>>
                  [] OTHER -> <<b>>
    IN  <<34>> \o Concat([i \in 1..Len(bytes) |-> chunk(i)]) \o <<34>>

\* json.Unmarshal into a string: null leaves the string empty; the text is
\* otherwise a quoted string whose escapes are undone and whose bytes
\* outside any valid rune become U+FFFD
unmarshalString(text) ==
    IF text = nullText THEN EncOk(<<>>)
    ELSE IF Len(text) < 2 \/ text[1] # 34 \/ text[Len(text)] # 34 THEN EncErr
    ELSE LET inner == SubSeq(text, 2, Len(text) - 1)
             n == Len(inner)
             \* the number of backslashes right before inner[i]
             run == [i \in 1..n |->
                        CHOOSE k \in 0..(i - 1) :
                            /\ \A j \in (i - k)..(i - 1) : inner[j] = 92
                            /\ k = i - 1 \/ inner[i - k - 1] # 92]
             starts == [i \in 1..n |-> inner[i] = 92 /\ run[i] % 2 = 0]
             escaped == [i \in 1..n |-> i > 1 /\ starts[i - 1]]
             hex == [i \in 1..n |->
                        \E k \in 1..4 : i - k >= 2 /\ inner[i - k] = 117 /\ escaped[i - k]]
             hexAt(i, k) == IF i + k <= n THEN HexValue(inner[i + k]) ELSE -1
             bad(i) ==
                 CASE starts[i] -> i = n
                   [] escaped[i] ->
                         IF inner[i] = 117 THEN \E k \in 1..4 : hexAt(i, k) < 0
                         ELSE inner[i] \notin {34, 92, 47, 98, 102, 110, 114, 116}
                   [] hex[i] -> FALSE
                   [] OTHER -> inner[i] = 34 \/ inner[i] < 32
             chunk(i) ==
                 CASE starts[i] -> <<>>
                   [] escaped[i] ->
                         CASE inner[i] = 117 ->
                                 EncodeRune(hexAt(i, 1) * 4096 + hexAt(i, 2) * 256
                                                + hexAt(i, 3) * 16 + hexAt(i, 4))
                           [] inner[i] = 98 -> <<8>>
                           [] inner[i] = 102 -> <<12>>
                           [] inner[i] = 110 -> <<10>>
                           [] inner[i] = 114 -> <<13>>
                           [] inner[i] = 116 -> <<9>>
                           [] OTHER -> <<inner[i]>>
                   [] hex[i] -> <<>>
                   [] inner[i] >= 128 /\ ~InRune(inner, i) -> <<239, 191, 189>>
                   [] OTHER -> <<inner[i]>>
         IN  IF \E i \in 1..n : bad(i) THEN EncErr
             ELSE EncOk(Concat([i \in 1..n |-> chunk(i)]))

\* the 64 characters of base64.StdEncoding and the 32 of base32.StdEncoding
base64Alphabet ==
    [v \in 0..63 |-> CASE v < 26 -> 65 + v
                       [] v < 52 -> 71 + v
                       [] v < 62 -> v - 4
                       [] v = 62 -> 43
                       [] OTHER -> 47]
base32Alphabet == [v \in 0..31 |-> IF v < 26 THEN 65 + v ELSE 24 + v]

\* the place of a character in an alphabet, -1 for a character outside it
ValueIn(alphabet, c) ==
    IF \E v \in DOMAIN alphabet : alphabet[v] = c
    THEN CHOOSE v \in DOMAIN alphabet : alphabet[v] = c
    ELSE -1

\* base64.StdEncoding.EncodeToString: 6 bits a character, = up to a
\* multiple of 4 characters
base64Encode(bytes) ==
    LET sextets == (8 * Len(bytes) + 5) \div 6
    IN  [i \in 1..(4 * ((Len(bytes) + 2) \div 3)) |->
            IF i <= sextets THEN base64Alphabet[BitsOf(bytes, 8, 6 * (i - 1), 6)] ELSE 61]

\* base64.StdEncoding.DecodeString
base64Decode(text) ==
    LET padding == Cardinality({i \in 1..Len(text) : text[i] = 61})
        sextets == [i \in 1..(Len(text) - padding) |-> ValueIn(base64Alphabet, text[i])]
    IN  IF \/ Len(text) % 4 # 0
           \/ padding > 2
           \/ \E i \in 1..Len(sextets) : sextets[i] < 0
        THEN EncErr
        ELSE EncOk([k \in 1..((6 * Len(sextets)) \div 8) |-> BitsOf(sextets, 6, 8 * (k - 1), 8)])

\* base32Encoder.EncodeToString: 5 bits a character, no padding
base32Encode(bytes) ==
    [i \in 1..((8 * Len(bytes) + 4) \div 5) |-> base32Alphabet[BitsOf(bytes, 8, 5 * (i - 1), 5)]]

\* base32Encoder.DecodeString
base32Decode(text) ==
    LET quintets == [i \in 1..Len(text) |-> ValueIn(base32Alphabet, text[i])]
    IN  IF \/ \E i \in 1..Len(text) : quintets[i] < 0
           \/ Len(text) % 8 \in {1, 3, 6}
        THEN EncErr
        ELSE EncOk([k \in 1..((5 * Len(text)) \div 8) |-> BitsOf(quintets, 5, 8 * (k - 1), 8)])

checksumBytesSize == 4

RECURSIVE WeightedSum(_, _)
WeightedSum(bytes, weight) ==
    IF Len(bytes) = 0 THEN 0
    ELSE (bytes[1] * (weight + Len(bytes)) + WeightedSum(Tail(bytes), weight)) % 65521

\* Checksum: the last 4 bytes of the SHA-512/256 digest of the address. The
\* digest is stood in for by four sums over the bytes: what the callers rely
\* on is that equal addresses have equal checksums.
Checksum(addressBytes) ==
    [k \in 1..checksumBytesSize |-> WeightedSum(addressBytes, 7 * k) % 256]

\* address.ToString
addressToString(addressBytes) == base32Encode(addressBytes \o Checksum(addressBytes))

\* address.FromString
addressFromString(addressString) ==
    LET decoded == base32Decode(addressString)
    IN  IF decoded.err THEN EncErr
        ELSE IF Len(decoded.bytes) # addressByteSize + checksumBytesSize THEN EncErr
        ELSE LET addressBytes == SubSeq(decoded.bytes, 1, addressByteSize)
             IN  IF Checksum(addressBytes)
                        # SubSeq(decoded.bytes, addressByteSize + 1, Len(decoded.bytes))
                 THEN EncErr
                 ELSE EncOk(addressBytes)

(***************************************************************************)
(* JSON: MarshalToJSON and UnmarshalFromJSON                               *)
(***************************************************************************)
\* big.Rat.FloatString as it would be with the zeros behind the digits
FloatStringPadRight(n, precision) ==
    LET digits == FormatDecimal(n)
        padded == digits \o [i \in 1..(precision + 1 - Len(digits)) |-> 48]
    IN  SubSeq(padded, 1, Len(padded) - precision) \o <<46>>
            \o SubSeq(padded, Len(padded) - precision + 1, Len(padded))

\* new(big.Rat).SetFrac(n, 10^precision).FloatString(precision): the digits
\* of n with a point before the last precision of them, zeros in front
\* where n has too few
FloatString(n, precision) ==
    LET digits == FormatDecimal(n)
        padded == [i \in 1..(precision + 1 - Len(digits)) |-> 48] \o digits
    IN  IF precision = 0 THEN digits
        ELSE SubSeq(padded, 1, Len(padded) - precision) \o <<46>>
                 \o SubSeq(padded, Len(padded) - precision + 1, Len(padded))

\* big.Int.UnmarshalJSON: null is ignored; a number in base 10, with an
\* optional sign
bigIntUnmarshalJSON(text) ==
    LET signed == Len(text) > 0 /\ text[1] \in {43, 45}
        digits == IF signed THEN Tail(text) ELSE text
    IN  IF text = nullText THEN [err |-> FALSE, n |-> 0]
        ELSE IF ~IsDigits(digits) \/ (Len(digits) > 1 /\ digits[1] = 48)
        THEN [err |-> TRUE, n |-> 0]
        ELSE [err |-> FALSE,
              n |-> IF text[1] = 45 THEN 0 - ParseDecimal(digits) ELSE ParseDecimal(digits)]

\* big.Rat.UnmarshalText of a decimal literal, the product with
\* 10^precision and the test that it is an integer: the fraction is cut or
\* filled to precision digits, and the digits cut off must be zeros
scaleDecimal(text, precision) ==
    LET signed == Len(text) > 0 /\ text[1] \in {43, 45}
        unsigned == IF signed THEN Tail(text) ELSE text
        points == {i \in 1..Len(unsigned) : unsigned[i] = 46}
        point == IF points = {} THEN Len(unsigned) + 1
                 ELSE CHOOSE i \in points : \A j \in points : i <= j
        whole == SubSeq(unsigned, 1, point - 1)
        fraction == SubSeq(unsigned, point + 1, Len(unsigned))
        kept == [i \in 1..precision |-> IF i <= Len(fraction) THEN fraction[i] ELSE 48]
        n == ParseDecimal(whole \o kept)
    IN  IF \/ Len(whole) + Len(fraction) = 0
           \/ \E i \in 1..Len(whole) : whole[i] \notin 48..57
           \/ \E i \in 1..Len(fraction) : fraction[i] \notin 48..57
        THEN [err |-> TRUE, n |-> 0]
        ELSE IF \E i \in (precision + 1)..Len(fraction) : fraction[i] # 48
        THEN [err |-> TRUE, n |-> 0]
        ELSE [err |-> FALSE, n |-> IF signed /\ text[1] = 45 THEN 0 - n ELSE n]

\* castBigIntToNearestPrimitive as it would be without the comparison of
\* the bit length
castBigIntToNearestPrimitiveUnchecked(num, bitSize) ==
    IF num < 0 THEN DecErr
    ELSE CASE bitSize \div 8 = 1 -> DecOk(GoUint8(num))
           [] bitSize \div 8 = 2 -> DecOk([tag |-> "uint16", v |-> num])
           [] bitSize \div 8 \in {3, 4} -> DecOk([tag |-> "uint32", v |-> num])
           [] bitSize \div 8 \in 5..8 -> DecOk([tag |-> "uint64", v |-> num])
           [] OTHER -> DecOk([tag |-> "*big.Int", v |-> num])

\* castBigIntToNearestPrimitive
castBigIntToNearestPrimitive(num, bitSize) ==
    IF BitLen(IF num < 0 THEN 0 - num ELSE num) > bitSize THEN DecErr
    ELSE IF num < 0 THEN DecErr
    ELSE CASE bitSize \div 8 = 1 -> DecOk(GoUint8(num))
           [] bitSize \div 8 = 2 -> DecOk([tag |-> "uint16", v |-> num])
           [] bitSize \div 8 \in {3, 4} -> DecOk([tag |-> "uint32", v |-> num])
           [] bitSize \div 8 \in 5..8 -> DecOk([tag |-> "uint64", v |-> num])
           [] OTHER -> DecOk([tag |-> "*big.Int", v |-> num])

\* json.Marshal of a []json.RawMessage
marshalRawSlice(rawMsgSlice) ==
    <<91>> \o Concat([i \in 1..Len(rawMsgSlice) |->
                         IF i = 1 THEN rawMsgSlice[i] ELSE <<44>> \o rawMsgSlice[i]])
         \o <<93>>

\* json.Unmarshal into a []json.RawMessage: null gives no elements; the
\* text is otherwise an array, cut at the commas that lie outside every
\* string and every nested array
unmarshalRawSlice(text) ==
    IF text = nullText THEN [err |-> FALSE, elems |-> <<>>]
    ELSE IF Len(text) < 2 \/ text[1] # 91 \/ text[Len(text)] # 93
    THEN [err |-> TRUE, elems |-> <<>>]
    ELSE LET n == Len(text)
             run == [i \in 1..n |->
                        CHOOSE k \in 0..(i - 1) :
                            /\ \A j \in (i - k)..(i - 1) : text[j] = 92
                            /\ k = i - 1 \/ text[i - k - 1] # 92]
             quote == [i \in 1..n |-> text[i] = 34 /\ run[i] % 2 = 0]
             inString == [i \in 1..n |->
                             Cardinality({j \in 1..(i - 1) : quote[j]}) % 2 = 1]
             depth == [i \in 1..n |->
                          Cardinality({j \in 1..(i - 1) :
                                          text[j] \in {91, 123} /\ ~inString[j]})
                              - Cardinality({j \in 1..(i - 1) :
                                                text[j] \in {93, 125} /\ ~inString[j]})]
             commas == {i \in 1..n : text[i] = 44 /\ ~inString[i] /\ depth[i] = 1}
             cuts == <<1>> \o [k \in 1..Cardinality(commas) |->
                                  CHOOSE i \in commas :
                                      Cardinality({j \in commas : j < i}) = k - 1]
                          \o <<n>>
             elems == [k \in 1..(Len(cuts) - 1) |->
                          SubSeq(text, cuts[k] + 1, cuts[k + 1] - 1)]
             balanced == /\ depth[n] = 1 /\ ~inString[n]
                         /\ \A i \in 2..(n - 1) : depth[i] >= 1
             value(e) == /\ Len(e) > 0
                         /\ \/ e[1] \in {34, 91, 123}
                            \/ e \in {trueText, falseText, nullText}
                            \/ IsJSONNumber(e)
         IN  IF n = 2 THEN [err |-> FALSE, elems |-> <<>>]
             ELSE IF ~balanced \/ \E k \in 1..Len(elems) : ~value(elems[k])
             THEN [err |-> TRUE, elems |-> <<>>]
             ELSE [err |-> FALSE, elems |-> elems]

\* json.Unmarshal into a byte: null leaves 0; an integer from 0 to 255
unmarshalByte(text) ==
    IF text = nullText THEN DecOk(GoUint8(0))
    ELSE IF ~IsDigits(text) \/ Len(text) > 3 \/ (Len(text) > 1 /\ text[1] = 48) THEN DecErr
    ELSE IF ParseDecimal(text) > 255 THEN DecErr
    ELSE DecOk(GoUint8(ParseDecimal(text)))

RECURSIVE MarshalToJSON(_, _)
\* Type.MarshalToJSON
MarshalToJSON(t, value) ==
    CASE t.kind = "Uint" ->
            LET bytesUint == encodeInt(value, t.bitSize)
            IN  IF bytesUint.err THEN EncErr
                ELSE EncOk(FormatDecimal(SetBytes(bytesUint.bytes)))
      [] t.kind = "Ufixed" ->
            LET encodedUint == encodeInt(value, t.bitSize)
            IN  IF encodedUint.err THEN EncErr
                ELSE EncOk(FloatString(SetBytes(encodedUint.bytes), t.precision))
      [] t.kind = "Bool" ->
            IF value.tag # "bool" THEN EncErr
            ELSE EncOk(IF value.v THEN trueText ELSE falseText)
      [] t.kind = "Byte" ->
            IF value.tag # "uint8" THEN EncErr ELSE EncOk(FormatDecimal(value.v))
      [] t.kind = "Address" ->
            CASE value.tag = "[]byte" ->
                    IF Len(value.v) # addressByteSize THEN EncErr
                    ELSE EncOk(marshalString(addressToString(value.v)))
              [] value.tag = "[n]byte{}" /\ value.v = addressByteSize ->
                    EncOk(marshalString(addressToString([i \in 1..addressByteSize |-> 0])))
              [] OTHER -> EncErr
      [] t.kind \in {"ArrayStatic", "ArrayDynamic"} ->
            LET inferred == inferToSlice(value)
                values == inferred.values
            IN  IF inferred.err THEN EncErr
                ELSE IF t.kind = "ArrayStatic" /\ t.staticLength # Len(values) THEN EncErr
                ELSE IF t.childTypes[1].kind = "Byte"
                THEN IF \E i \in 1..Len(values) : values[i].tag # "uint8" THEN EncErr
                     ELSE EncOk(<<34>> \o base64Encode([i \in 1..Len(values) |-> values[i].v])
                                    \o <<34>>)
                ELSE LET rawMsgSlice == [i \in 1..Len(values) |->
                                            MarshalToJSON(t.childTypes[1], values[i])]
                     IN  IF \E i \in 1..Len(values) : rawMsgSlice[i].err THEN EncErr
                         ELSE EncOk(marshalRawSlice([i \in 1..Len(values) |->
                                                        rawMsgSlice[i].bytes]))
      [] t.kind = "String" ->
            IF value.tag # "string" THEN EncErr ELSE EncOk(marshalString(value.v))
      [] t.kind = "Tuple" ->
            LET inferred == inferToSlice(value)
                values == inferred.values
            IN  IF inferred.err THEN EncErr
                ELSE IF Len(values) # t.staticLength THEN EncErr
                ELSE LET rawMsgSlice == [i \in 1..Len(values) |->
                                            MarshalToJSON(t.childTypes[i], values[i])]
                     IN  IF \E i \in 1..Len(values) : rawMsgSlice[i].err THEN EncErr
                         ELSE EncOk(marshalRawSlice([i \in 1..Len(values) |->
                                                        rawMsgSlice[i].bytes]))
      [] OTHER -> EncErr

RECURSIVE UnmarshalFromJSON(_, _)
\* Type.UnmarshalFromJSON
UnmarshalFromJSON(t, jsonEncoded) ==
    LET hasPrefix(c) == Len(jsonEncoded) > 0 /\ jsonEncoded[1] = c
        \* the elements of a JSON array, each against the type childOf gives
        elements(childOf, staticLength) ==
            LET raw == unmarshalRawSlice(jsonEncoded)
                values == [i \in 1..Len(raw.elems) |->
                              UnmarshalFromJSON(childOf[i], raw.elems[i])]
            IN  IF raw.err THEN DecErr
                ELSE IF staticLength >= 0 /\ Len(raw.elems) # staticLength THEN DecErr
                ELSE IF \E i \in 1..Len(raw.elems) : values[i].err THEN DecErr
                ELSE DecOk(GoSlice([i \in 1..Len(raw.elems) |-> values[i].v]))
    IN  CASE t.kind = "Uint" ->
                LET num == bigIntUnmarshalJSON(jsonEncoded)
                IN  IF num.err THEN DecErr
                    ELSE castBigIntToNearestPrimitive(num.n, t.bitSize)
          [] t.kind = "Ufixed" ->
                LET numeratorRat == scaleDecimal(jsonEncoded, t.precision)
                IN  IF numeratorRat.err THEN DecErr
                    ELSE castBigIntToNearestPrimitive(numeratorRat.n, t.bitSize)
          [] t.kind = "Bool" ->
                CASE jsonEncoded = trueText -> DecOk(GoBool(TRUE))
                  [] jsonEncoded \in {falseText, nullText} -> DecOk(GoBool(FALSE))
                  [] OTHER -> DecErr
          [] t.kind = "Byte" -> unmarshalByte(jsonEncoded)
          [] t.kind = "Address" ->
                LET addrStr == unmarshalString(jsonEncoded)
                    addrBytes == addressFromString(addrStr.bytes)
                IN  IF addrStr.err THEN DecErr
                    ELSE IF addrBytes.err THEN DecErr
                    ELSE DecOk(GoBytes(addrBytes.bytes))
          [] t.kind \in {"ArrayStatic", "ArrayDynamic"} ->
                IF t.childTypes[1].kind = "Byte" /\ hasPrefix(34)
                THEN LET base64Text == unmarshalString(jsonEncoded)
                         byteArr == base64Decode(base64Text.bytes)
                     IN  IF base64Text.err \/ byteArr.err THEN DecErr
                         ELSE IF t.kind = "ArrayStatic"
                                    /\ Len(byteArr.bytes) # t.staticLength
                         THEN DecErr
                         ELSE DecOk(GoSlice([i \in 1..Len(byteArr.bytes) |->
                                                GoUint8(byteArr.bytes[i])]))
                ELSE elements([i \in 1..Len(jsonEncoded) |-> t.childTypes[1]],
                              IF t.kind = "ArrayStatic" THEN t.staticLength ELSE -1)
          [] t.kind = "String" ->
                IF hasPrefix(34)
                THEN LET stringVar == unmarshalString(jsonEncoded)
                     IN  IF stringVar.err THEN DecErr ELSE DecOk(GoString(stringVar.bytes))
                ELSE IF hasPrefix(91)
                THEN LET elems == elements([i \in 1..Len(jsonEncoded) |-> byteType], -1)
                     IN  IF elems.err THEN DecErr
                         ELSE DecOk(GoString([i \in 1..Len(elems.v.v) |-> elems.v.v[i].v]))
                ELSE DecErr
          [] t.kind = "Tuple" ->
                LET raw == unmarshalRawSlice(jsonEncoded)
                IN  IF raw.err THEN DecErr
                    ELSE IF Len(raw.elems) # t.staticLength THEN DecErr
                    ELSE elements(t.childTypes, t.staticLength)
          [] OTHER -> DecErr

(***************************************************************************)
(* Method signatures                                                       *)
(***************************************************************************)
AnyTransactionType == "txn"
PaymentTransactionType == "pay"
KeyRegistrationTransactionType == "keyreg"
AssetConfigTransactionType == "acfg"
AssetTransferTransactionType == "axfer"
AssetFreezeTransactionType == "afrz"
ApplicationCallTransactionType == "appl"
AccountReferenceType == "account"
AssetReferenceType == "asset"
ApplicationReferenceType == "application"
VoidReturnType == "void"

IsTransactionType(s) ==
    s \in {AnyTransactionType, PaymentTransactionType, KeyRegistrationTransactionType,
           AssetConfigTransactionType, AssetTransferTransactionType,
           AssetFreezeTransactionType, ApplicationCallTransactionType}

\* IsReferenceType as it would be without the application keyword
IsReferenceTypeNoApplication(s) == s \in {AccountReferenceType, AssetReferenceType}

IsReferenceType(s) ==
    s \in {AccountReferenceType, AssetReferenceType, ApplicationReferenceType}

RECURSIVE depthLoop(_, _, _)
\* ParseMethodSignature, the loop that finds the parenthesis closing the
\* first one: argsEnd, or -1 when the string ends first
depthLoop(methodSig, index, depth) ==
    IF index >= Len(methodSig) THEN [err |-> FALSE, argsEnd |-> -1]
    ELSE IF At(methodSig, index) = "("
    THEN depthLoop(methodSig, index + 1, depth + 1)
    ELSE IF At(methodSig, index) = ")"
    THEN IF depth = 0 THEN [err |-> TRUE, argsEnd |-> -1]
         ELSE IF depth - 1 = 0 THEN [err |-> FALSE, argsEnd |-> index]
         ELSE depthLoop(methodSig, index + 1, depth - 1)
    ELSE depthLoop(methodSig, index + 1, depth)

\* ParseMethodSignature: the named results keep their zero values on the
\* early returns
ParseMethodSignature(methodSig) ==
    LET failed == [err |-> TRUE, panic |-> FALSE, name |-> "", argTypes |-> <<>>,
                   returnType |-> ""]
        argsStart == Index(methodSig, "(")
    IN  IF argsStart = -1 THEN failed
        ELSE IF argsStart = 0 THEN failed
        ELSE LET scan == depthLoop(methodSig, 0, 0)
             IN  IF scan.err \/ scan.argsEnd = -1 THEN failed
                 ELSE LET content == parseTupleContent(Sub(methodSig, argsStart + 1,
                                                           scan.argsEnd))
                      IN  [err |-> content.err, panic |-> content.panic,
                           name |-> Sub(methodSig, 0, argsStart),
                           argTypes |-> content.segs,
                           returnType |-> Sub(methodSig, scan.argsEnd + 1, Len(methodSig))]

\* VerifyMethodSignature: TRUE in err when an error is returned
VerifyMethodSignature(methodSig) ==
    LET sig == ParseMethodSignature(methodSig)
        argTypes == sig.argTypes
        argFails(i) ==
            /\ ~(IsReferenceType(argTypes[i]) \/ IsTransactionType(argTypes[i]))
            /\ TypeOf(argTypes[i]).err
    IN  IF sig.err THEN [err |-> TRUE, panic |-> sig.panic]
        ELSE IF \E i \in 1..Len(argTypes) : argFails(i)
        THEN LET first == CHOOSE i \in 1..Len(argTypes) :
                              argFails(i) /\ \A j \in 1..(i - 1) : ~argFails(j)
             IN  [err |-> TRUE, panic |-> TypeOf(argTypes[first]).panic]
        ELSE IF sig.returnType # VoidReturnType
        THEN LET ret == TypeOf(sig.returnType)
             IN  [err |-> ret.err, panic |-> ret.panic]
        ELSE [err |-> FALSE, panic |-> FALSE]

(***************************************************************************)
(* Package apps: box keys. A uint64 is held as its four 16-bit limbs, most *)
(* significant first; a Go string is held as the sequence of its bytes.    *)
(***************************************************************************)
boxPrefix == <<98, 120, 58>>
boxPrefixLength == Len(boxPrefix)
boxNameIndex == boxPrefixLength + 8

\* PutUint64 as it would be with the least significant byte first
PutUint64LittleEndian(v) ==
    <<v[4] % 256, v[4] \div 256, v[3] % 256, v[3] \div 256,
      v[2] % 256, v[2] \div 256, v[1] % 256, v[1] \div 256>>

\* binary.BigEndian.PutUint64
PutUint64(v) ==
    <<v[1] \div 256, v[1] % 256, v[2] \div 256, v[2] % 256,
      v[3] \div 256, v[3] % 256, v[4] \div 256, v[4] % 256>>

\* binary.BigEndian.Uint64
BigEndianUint64(b) ==
    <<b[1] * 256 + b[2], b[3] * 256 + b[4], b[5] * 256 + b[6], b[7] * 256 + b[8]>>

\* MakeBoxKey: a zeroed key of boxNameIndex+len(name) bytes, then three
\* copies into it
MakeBoxKey(appIdx, name) ==
    LET zeroed == [i \in 1..(boxNameIndex + Len(name)) |-> 0]
        withPrefix == [i \in 1..Len(zeroed) |->
                          IF i <= boxPrefixLength THEN boxPrefix[i] ELSE zeroed[i]]
        withApp == [i \in 1..Len(zeroed) |->
                       IF i > boxPrefixLength /\ i <= boxPrefixLength + 8
                       THEN PutUint64(appIdx)[i - boxPrefixLength] ELSE withPrefix[i]]
    IN  [i \in 1..Len(zeroed) |->
            IF i > boxNameIndex THEN name[i - boxNameIndex] ELSE withApp[i]]

\* SplitBoxKey
SplitBoxKey(key) ==
    LET failed == [err |-> TRUE, app |-> <<0, 0, 0, 0>>, name |-> <<>>]
    IN  IF Len(key) < boxNameIndex THEN failed
        ELSE IF SubSeq(key, 1, boxPrefixLength) # boxPrefix THEN failed
        ELSE [err |-> FALSE,
              app |-> BigEndianUint64(SubSeq(key, boxPrefixLength + 1, boxNameIndex)),
              name |-> SubSeq(key, boxNameIndex + 1, Len(key))]

(***************************************************************************)
(* Inputs                                                                  *)
(***************************************************************************)
MaxBitSizeInput == 520
MaxPrecisionInput == 161
MaxLengthInput == 9
MaxTokens == 5
MaxDynamicLen == 2
MaxBools == 10
MaxAppendSlack == 1
MaxValueLen == 3
MaxIntInput == 260
MaxScenarioInt == 20
MaxInputLen == 4
MaxSigTokens == 5
MaxNameLen == 2
MaxPrefixLen == 20
MaxCut == 1
MaxTextLen == 2
MaxChildren == 4
MaxLiteralLen == 4
MaxAlignChildren == 3
MaxCastLen == 30

\* a variable a scenario does not use
Unused == "-"

UintSig == [n \in 0..MaxBitSizeInput |-> "uint" \o FormatUint(n)]

UfixedSig == [n \in 0..MaxBitSizeInput |->
                [m \in 0..MaxPrecisionInput |->
                    "ufixed" \o FormatUint(n) \o "x" \o FormatUint(m)]]

\* the bit sizes every precision is tried with, and the precisions every
\* bit size is tried with
SizeSamples == {8, 64, 512}
PrecisionSamples == {0, 1, 160, 161}

NumericInputs ==
    {UintSig[n] : n \in 0..MaxBitSizeInput}
        \cup {UfixedSig[n][m] : n \in 0..MaxBitSizeInput, m \in PrecisionSamples}
        \cup {UfixedSig[n][m] : n \in SizeSamples, m \in 0..MaxPrecisionInput}
        \cup {"uint", "uint08", "uint+8", "uint8x", "uint65544", "ufixed8", "ufixed8x",
              "ufixedx8", "ufixed08x1", "ufixed8x01", "ufixed8x1x1", "ufixed65544x1"}

ElemSamples == {"uint8", "bool", "string", "(bool,byte[])", "address[2]", "()"}
LengthSamples == (0..MaxLengthInput) \cup {255, 256, 65534, 65535, 65536, 65537, 99999}

ArraySig(elem, n) == elem \o "[" \o FormatUint(n) \o "]"

ArrayInputs ==
    {ArraySig(elem, n) : elem \in ElemSamples, n \in LengthSamples}
        \cup {"uint8[01]", "uint8[+1]", "uint8[1", "[1]", "uint8[[1]", "Uint8[1]"}

\* well-formed signatures, nested two levels deep
BaseSigs == {"uint16", "byte", "bool", "string", "address", "ufixed16x2"}

Level1Sigs ==
    BaseSigs
        \cup {a \o "[]" : a \in BaseSigs}
        \cup {a \o "[3]" : a \in BaseSigs}
        \cup {"()"}
        \cup {"(" \o a \o ")" : a \in BaseSigs}
        \cup {"(" \o a \o "," \o b \o ")" : a, b \in BaseSigs}

InnerSigs == {"bool", "string", "uint16", "()", "bool[3]", "byte[]", "(bool)",
              "(bool,string)", "(uint16,bool)"}

Level2Sigs ==
    {a \o "[]" : a \in Level1Sigs}
        \cup {a \o "[2]" : a \in Level1Sigs}
        \cup {"(" \o a \o "," \o b \o ")" : a \in Level1Sigs, b \in InnerSigs}
        \cup {"(" \o a \o "," \o b \o "," \o c \o ")" : a, b, c \in InnerSigs}

RECURSIVE TokenStrings(_)
\* every concatenation of at most n tokens
TokenStrings(n) ==
    IF n = 0 THEN {""}
    ELSE LET shorter == TokenStrings(n - 1)
         IN  shorter \cup {s \o tok : s \in shorter,
                           tok \in {"(", ")", ",", "[]", "[2]", "bool", "uint8"}}

SigInputs ==
    NumericInputs \cup ArrayInputs \cup Level1Sigs \cup Level2Sigs \cup TokenStrings(MaxTokens)

\* the signature pairs Equal is tried on
PairSigs ==
    Level1Sigs \cup {"uint8", "uint08", "uint16[2]", "uint16[4]", "ufixed16x3",
                     "ufixed24x2", "uint24", "(uint16)[]", "(uint16[])", "((uint16),bool)",
                     "(uint16,(bool))", "(bool(),())", "(bool,())", "(())", "(bool,bool,bool)",
                     "byte[32]", "bool[3][]", "bool[][3]"}

\* the signatures values are encoded against
CodecSigs ==
    Level1Sigs \cup {"uint8", "uint24", "uint64", "ufixed8x1",
                     "(uint16,())", "((),uint16)", "(bool,())", "((),bool)", "(string,())",
                     "((),string)", "(())", "()[2]", "()[]", "(uint16)[]", "(string)[]",
                     "(bool,bool,uint16,bool)", "(bool,uint16,bool,bool)",
                     "(bool[2],byte[],bool)", "(string,(bool,string[]))",
                     "((uint16,string),(bool))", "(byte[],string,uint16[])",
                     "bool[3][]", "bool[][2]", "uint16[2][2]", "string[2]", "string[][]",
                     "(bool,bool,bool,bool,bool,bool,bool,bool,bool)",
                     "byte[65535]"}

RECURSIVE ValuesOf(_), TupleValuesOf(_)

\* every list of one value per child type
TupleValuesOf(childTypes) ==
    IF Len(childTypes) = 0 THEN {<<>>}
    ELSE {<<v>> \o rest : v \in ValuesOf(childTypes[1]),
                          rest \in TupleValuesOf(Tail(childTypes))}

\* well-formed Go values for a type: a few per scalar, every combination for
\* short arrays and for tuples, one value for an array above MaxValueLen
ValuesOf(t) ==
    CASE t.kind \in {"Uint", "Ufixed"} ->
            {GoInt(x) : x \in {x \in {0, 255, 258, 16909060} : BitLen(x) <= t.bitSize}}
      [] t.kind = "Byte" -> {GoUint8(0), GoUint8(255)}
      [] t.kind = "Bool" -> {GoBool(FALSE), GoBool(TRUE)}
      [] t.kind = "String" -> {GoString(<<>>), GoString(<<104, 105>>)}
      [] t.kind = "Address" -> {GoBytes([i \in 1..addressByteSize |-> i])}
      [] t.kind = "ArrayStatic" ->
            IF t.staticLength > MaxValueLen
            THEN IF t.childTypes[1].kind = "Byte"
                 THEN {GoZeroByteArray(t.staticLength)}
                 ELSE {GoSlice([i \in 1..t.staticLength |->
                                   CHOOSE v \in ValuesOf(t.childTypes[1]) : TRUE])}
            ELSE {GoSlice(vs) : vs \in [1..t.staticLength -> ValuesOf(t.childTypes[1])]}
      [] t.kind = "ArrayDynamic" ->
            UNION {{GoSlice(vs) : vs \in [1..n -> ValuesOf(t.childTypes[1])]} :
                   n \in 0..MaxDynamicLen}
      [] t.kind = "Tuple" -> {GoSlice(vs) : vs \in TupleValuesOf(t.childTypes)}
      [] OTHER -> {}

\* the integer types, and the Go integers, encodeInt is tried on
IntSigs == {"uint8", "uint16", "uint24", "ufixed8x1", "ufixed16x3", "ufixed24x10"}

IntInputs ==
    ((-2)..MaxIntInput)
        \cup {2 ^ k + d : k \in {8, 16, 24}, d \in (-2)..2}
        \cup {4660, 66051, 1193046}

RECURSIVE Repeat(_, _)
\* n copies of a string, joined by sep
Repeat(n, sep) == IF n = 0 THEN <<>> ELSE Append(Repeat(n - 1, sep), sep)

\* the tuple of n bools, and the static array of n bools (n >= 1)
BoolTupleSig(n) == "(" \o Join(Repeat(n, "bool"), ",") \o ")"
BoolArraySig(n) == "bool[" \o FormatUint(n) \o "]"

(***************************************************************************)
(* Scenarios: a caller of the package                                      *)
(***************************************************************************)
InitType ==
    /\ pc = "start"
    /\ str \in SigInputs
    /\ parsed = Unused /\ op = Unused /\ result = Unused /\ reparsed = Unused
    /\ str0 = Unused /\ parsed0 = Unused
    /\ goValue = Unused /\ encResult = Unused /\ decResult = Unused
    /\ children = Unused

\* parsed, err := TypeOf(str)
CallTypeOf ==
    /\ pc = "start"
    /\ parsed' = TypeOf(str)
    /\ pc' = "parsed"
    /\ UNCHANGED <<str, op, result, reparsed, str0, parsed0, goValue, encResult, decResult, children>>

\* parsed.String()
CallString ==
    /\ pc = "parsed" /\ ~parsed.err
    /\ op' = "String"
    /\ result' = String(parsed.t)
    /\ pc' = "called"
    /\ UNCHANGED <<str, parsed, reparsed, str0, parsed0, goValue, encResult, decResult, children>>

\* parsed.IsDynamic()
CallIsDynamic ==
    /\ pc = "parsed" /\ ~parsed.err
    /\ op' = "IsDynamic"
    /\ result' = IsDynamic(parsed.t)
    /\ pc' = "called"
    /\ UNCHANGED <<str, parsed, reparsed, str0, parsed0, goValue, encResult, decResult, children>>

\* parsed.ByteLen()
CallByteLen ==
    /\ pc = "parsed" /\ ~parsed.err
    /\ op' = "ByteLen"
    /\ result' = ByteLen(parsed.t)
    /\ pc' = "called"
    /\ UNCHANGED <<str, parsed, reparsed, str0, parsed0, goValue, encResult, decResult, children>>

\* reparsed, err := TypeOf(parsed.String())
CallTypeOfString ==
    /\ pc = "called" /\ op = "String"
    /\ reparsed' = TypeOf(result)
    /\ pc' = "reparsed"
    /\ UNCHANGED <<str, parsed, op, result, str0, parsed0, goValue, encResult, decResult, children>>

NextType == CallTypeOf \/ CallString \/ CallIsDynamic \/ CallByteLen \/ CallTypeOfString

SpecType == InitType /\ [][NextType]_vars

InitEqual ==
    /\ pc = "start"
    /\ str \in PairSigs
    /\ str0 \in PairSigs
    /\ parsed = Unused /\ op = Unused /\ result = Unused /\ reparsed = Unused
    /\ parsed0 = Unused
    /\ goValue = Unused /\ encResult = Unused /\ decResult = Unused
    /\ children = Unused

\* parsed, err := TypeOf(str); parsed0, err0 := TypeOf(str0)
CallTypeOfBoth ==
    /\ pc = "start"
    /\ parsed' = TypeOf(str)
    /\ parsed0' = TypeOf(str0)
    /\ pc' = "parsed"
    /\ UNCHANGED <<str, op, result, reparsed, str0, goValue, encResult, decResult, children>>

\* parsed.Equal(parsed0)
CallEqual ==
    /\ pc = "parsed" /\ ~parsed.err /\ ~parsed0.err
    /\ op' = "Equal"
    /\ result' = Equal(parsed.t, parsed0.t)
    /\ pc' = "called"
    /\ UNCHANGED <<str, parsed, reparsed, str0, parsed0, goValue, encResult, decResult, children>>

NextEqual == CallTypeOfBoth \/ CallEqual

SpecEqual == InitEqual /\ [][NextEqual]_vars

InitCodec ==
    /\ pc = "start"
    /\ str \in CodecSigs
    /\ goValue \in ValuesOf(TypeOf(str).t)
    /\ parsed = Unused /\ op = Unused /\ result = Unused /\ reparsed = Unused
    /\ str0 = Unused /\ parsed0 = Unused
    /\ encResult = Unused /\ decResult = Unused
    /\ children = Unused

InitInt ==
    /\ pc = "start"
    /\ str \in IntSigs
    /\ goValue \in {GoInt(x) : x \in IntInputs}
                       \cup {[tag |-> "uint64", v |-> 4660], [tag |-> "*big.Int", v |-> 66051]}
    /\ parsed = Unused /\ op = Unused /\ result = Unused /\ reparsed = Unused
    /\ str0 = Unused /\ parsed0 = Unused
    /\ encResult = Unused /\ decResult = Unused
    /\ children = Unused

InitBools ==
    /\ pc = "start"
    /\ \E n \in 0..MaxBools :
           /\ str \in {BoolTupleSig(n)} \cup (IF n >= 1 THEN {BoolArraySig(n)} ELSE {})
           /\ goValue \in {GoSlice([i \in 1..n |-> GoBool(bits[i])]) :
                               bits \in [1..n -> BOOLEAN]}
    /\ parsed = Unused /\ op = Unused /\ result = Unused /\ reparsed = Unused
    /\ str0 = Unused /\ parsed0 = Unused
    /\ encResult = Unused /\ decResult = Unused
    /\ children = Unused

\* encoded, err := parsed.Encode(goValue). The capacity of the returned slice
\* is its length, except where Encode ends in append(lengthEncode, encoded...),
\* which may leave zeroed room behind the bytes.
CallEncode ==
    /\ pc = "parsed" /\ ~parsed.err
    /\ LET enc == Encode(parsed.t, goValue)
       IN  \E slack \in 0..MaxAppendSlack :
               /\ slack > 0 => (~enc.err /\ parsed.t.kind \in {"ArrayDynamic", "String"})
               /\ encResult' = [err |-> enc.err, bytes |-> enc.bytes,
                                hidden |-> [i \in 1..slack |-> 0]]
    /\ pc' = "encoded"
    /\ UNCHANGED <<str, parsed, op, result, reparsed, str0, parsed0, goValue, decResult, children>>

\* decoded, err := parsed.Decode(encoded)
CallDecode ==
    /\ pc = "encoded" /\ ~encResult.err
    /\ decResult' = Decode(parsed.t, MkSlice(encResult.bytes, encResult.hidden))
    /\ pc' = "decoded"
    /\ UNCHANGED <<str, parsed, op, result, reparsed, str0, parsed0, goValue, encResult, children>>

NextCodec == CallTypeOf \/ CallEncode \/ CallDecode

SpecCodec == InitCodec /\ [][NextCodec]_vars

SpecInt == InitInt /\ [][NextCodec]_vars

SpecBools == InitBools /\ [][NextCodec]_vars

\* the byte strings of up to two bytes over 'h' and 'i'
ShortStrings == UNION {[1..n -> {104, 105}] : n \in 0..2}

\* values for the type (uint8,string)
InitPair ==
    /\ pc = "start"
    /\ str = "(uint8,string)"
    /\ goValue \in {GoSlice(<<[tag |-> tag, v |-> x], GoString(s)>>) :
                       tag \in {"uint8", "int"}, x \in 0..MaxScenarioInt, s \in ShortStrings}
    /\ parsed = Unused /\ op = Unused /\ result = Unused /\ reparsed = Unused
    /\ str0 = Unused /\ parsed0 = Unused
    /\ encResult = Unused /\ decResult = Unused
    /\ children = Unused

SpecPair == InitPair /\ [][NextCodec]_vars

\* the types raw bytes are decoded against
DecodeSigs ==
    {"uint8", "uint16", "bool", "byte", "string", "byte[]", "uint16[]", "()", "(bool)",
     "bool[2]", "bool[9]", "(uint16)", "(uint16,uint8)", "(uint8,bool)", "(bool,uint8)",
     "(bool,bool)", "(string)", "(uint8,string)", "(string,uint8)", "(bool,string)",
     "uint16[2]", "byte[3]", "string[1]", "(uint8,(uint8,uint8))", "((bool),uint8)"}

\* byte strings of up to n bytes over a few byte values
ByteStrings(n, alphabet) == UNION {[1..k -> alphabet] : k \in 0..n}

\* a []byte chosen by the caller: its bytes, and what its backing array
\* holds behind them
InitDecode ==
    /\ pc = "start"
    /\ str \in DecodeSigs
    /\ \E b \in ByteStrings(MaxInputLen, {0, 2, 128}) :
       \E x \in ByteStrings(MaxAppendSlack, {0, 128}) :
           encResult = [err |-> FALSE, bytes |-> b, hidden |-> x]
    /\ parsed = Unused /\ op = Unused /\ result = Unused /\ reparsed = Unused
    /\ str0 = Unused /\ parsed0 = Unused
    /\ goValue = Unused /\ decResult = Unused
    /\ children = Unused

\* decoded, err := parsed.Decode(b) on bytes that come from the caller
CallDecodeBytes ==
    /\ pc = "parsed" /\ ~parsed.err
    /\ op' = "Decode"
    /\ decResult' = Decode(parsed.t, MkSlice(encResult.bytes, encResult.hidden))
    /\ pc' = "decoded"
    /\ UNCHANGED <<str, parsed, result, reparsed, str0, parsed0, goValue, encResult, children>>

NextDecode == CallTypeOf \/ CallDecodeBytes

SpecDecode == InitDecode /\ [][NextDecode]_vars

\* reencoded, err := parsed.Encode(decoded), after a Decode without error
CallEncodeDecoded ==
    /\ pc = "decoded" /\ ~decResult.err
    /\ op' = "Encode"
    /\ result' = Encode(parsed.t, decResult.v)
    /\ pc' = "reencoded"
    /\ UNCHANGED <<str, parsed, reparsed, str0, parsed0, goValue, encResult, decResult,
                   children>>

NextCanon == CallTypeOf \/ CallDecodeBytes \/ CallEncodeDecoded

SpecCanon == InitDecode /\ [][NextCanon]_vars

RECURSIVE MethodTokenStrings(_)
\* every concatenation of at most n tokens of a method signature
MethodTokenStrings(n) ==
    IF n = 0 THEN {""}
    ELSE LET shorter == MethodTokenStrings(n - 1)
         IN  shorter \cup {s \o tok : s \in shorter,
                           tok \in {"f", "(", ")", ",", "bool", "pay"}}

MethodSigInputs ==
    MethodTokenStrings(MaxSigTokens)
        \cup {"add(uint64,uint64)uint128", "f(bool,bool)void", "f()void", "f(pay,account)void",
              "f(asset,application,txn)bool", "f(keyreg,acfg,axfer,afrz,appl)string",
              "f(bool)account", "f(bool)txn", "f(void)void", "f(bool)", "f(uint7)void",
              "f((bool,byte[]),uint8[2])(bool,string)", "f(bool(bool))void",
              "f(a(b),c)void", "f((a,b)c)void", "f((bool)[2],(bool)[])void",
              "f(application)application", "g((pay))void", "f(bool))void", "f((bool)void"}

InitMethod ==
    /\ pc = "start"
    /\ str \in MethodSigInputs
    /\ parsed = Unused /\ op = Unused /\ result = Unused /\ reparsed = Unused
    /\ str0 = Unused /\ parsed0 = Unused
    /\ goValue = Unused /\ encResult = Unused /\ decResult = Unused
    /\ children = Unused

\* name, argTypes, returnType, err := ParseMethodSignature(str)
CallParseMethodSignature ==
    /\ pc = "start"
    /\ op' = "ParseMethodSignature"
    /\ result' = ParseMethodSignature(str)
    /\ pc' = "called"
    /\ UNCHANGED <<str, parsed, reparsed, str0, parsed0, goValue, encResult, decResult, children>>

\* err := VerifyMethodSignature(str)
CallVerifyMethodSignature ==
    /\ pc = "start"
    /\ op' = "VerifyMethodSignature"
    /\ result' = VerifyMethodSignature(str)
    /\ pc' = "called"
    /\ UNCHANGED <<str, parsed, reparsed, str0, parsed0, goValue, encResult, decResult, children>>

NextMethod == CallParseMethodSignature \/ CallVerifyMethodSignature

SpecMethod == InitMethod /\ [][NextMethod]_vars

\* the tuples a caller builds with MakeTupleType, and the types it later
\* writes into its slice
TupleSigs ==
    {"(bool)", "(bool,uint8)", "(uint16,uint16)", "(string,bool)", "(bool,bool,bool)",
     "(byte[],(bool,uint8))", "(uint8[2],address)", "((bool),string)"}

WrittenSigs == {"bool", "uint16", "string", "byte[]", "(bool,bool)"}

InitAlias ==
    /\ pc = "start"
    /\ str \in TupleSigs
    /\ str0 \in WrittenSigs
    /\ goValue \in ValuesOf(TypeOf(str).t)
    /\ parsed = Unused /\ op = Unused /\ result = Unused /\ reparsed = Unused
    /\ parsed0 = Unused
    /\ encResult = Unused /\ decResult = Unused
    /\ children = Unused

\* what a holder of the type t sees of it: the results of its methods
Observation(t) ==
    [string |-> String(t),
     isDynamic |-> IsDynamic(t),
     byteLen |-> ByteLen(t),
     equal |-> Equal(t, TypeOf(str).t),
     encoded |-> Encode(t, goValue),
     decoded |-> Decode(t, MkSlice(Encode(TypeOf(str).t, goValue).bytes, <<>>))]

\* children := []Type{...}; parsed, err := MakeTupleType(children)
CallMakeTupleType ==
    /\ pc = "start"
    /\ children' = TypeOf(str).t.childTypes
    /\ parsed' = MakeTupleType(children')
    /\ pc' = "made"
    /\ UNCHANGED <<str, op, result, reparsed, str0, parsed0, goValue, encResult, decResult>>

\* the methods of parsed.t are called
ObserveType ==
    /\ pc = "made" /\ ~parsed.err
    /\ result' = Observation(parsed.t)
    /\ pc' = "observed"
    /\ UNCHANGED <<str, parsed, op, reparsed, str0, parsed0, goValue, encResult, decResult,
                   children>>

\* children[i] = u, by the caller. MakeTupleType has stored the slice it was
\* given in childTypes without copying it, so the element written is also
\* element i of parsed.t.childTypes.
WriteChild ==
    /\ pc = "observed"
    /\ \E i \in 1..Len(children) :
           /\ children[i] # TypeOf(str0).t
           /\ children' = [children EXCEPT ![i] = TypeOf(str0).t]
    /\ parsed' = [parsed EXCEPT !.t.childTypes = children']
    /\ pc' = "written"
    /\ UNCHANGED <<str, op, result, reparsed, str0, parsed0, goValue, encResult, decResult>>

\* the methods of parsed.t are called again
ObserveTypeAgain ==
    /\ pc = "written"
    /\ reparsed' = Observation(parsed.t)
    /\ pc' = "reobserved"
    /\ UNCHANGED <<str, parsed, op, result, str0, parsed0, goValue, encResult, decResult,
                   children>>

NextAlias == CallMakeTupleType \/ ObserveType \/ WriteChild \/ ObserveTypeAgain

SpecAlias == InitAlias /\ [][NextAlias]_vars

\* tuples with dynamic children. The two long ones have 65529 and 65530
\* bytes of static heads before two strings, which puts the second string's
\* offset at 65535 or above; the arrays are nested so that no loop of the
\* encoder runs more than 13 times.
OffsetSigs ==
    {"()", "(uint16)", "(string)", "(uint8,string)", "(string,string)",
     "(string,uint16,string[])", "(bool,bool,string,bool)", "(byte[],uint16[],bool)",
     "(byte[],(string,uint8),string)", "((string),(string))", "(string[2],string)",
     "(uint16[][],bool[],string)", "(byte[65535])",
     "(uint128[5][7][9][13],byte[9],string,string)",
     "(uint128[5][7][9][13],byte[10],string,string)"}

InitOffsets ==
    /\ pc = "start"
    /\ str \in OffsetSigs
    /\ goValue \in ValuesOf(TypeOf(str).t)
    /\ parsed = Unused /\ op = Unused /\ result = Unused /\ reparsed = Unused
    /\ str0 = Unused /\ parsed0 = Unused
    /\ encResult = Unused /\ decResult = Unused
    /\ children = Unused

NextOffsets == CallTypeOf \/ CallEncode

SpecOffsets == InitOffsets /\ [][NextOffsets]_vars

\* strings and dynamic arrays, with the values of ValuesOf and, for string
\* and byte[], values of MaxPrefixLen, 65535 and 65536 elements (one set for
\* each Go type that holds the values)
PrefixSigs ==
    {"string", "byte[]", "bool[]", "uint16[]", "string[]", "()[]", "(uint8,string)[]",
     "bool[2][]", "uint8[][]", "()"}

PrefixValues(sig) ==
    <<ValuesOf(TypeOf(sig).t),
      IF sig = "string"
      THEN {GoString([i \in 1..n |-> 97]) : n \in {MaxPrefixLen, 65535, 65536}}
      ELSE {},
      IF sig = "byte[]"
      THEN {GoZeroByteArray(n) : n \in {MaxPrefixLen, 65535, 65536}}
      ELSE {},
      IF sig = "byte[]" THEN {GoBytes(<<1, 2, 3>>)} ELSE {}>>

InitPrefix ==
    /\ pc = "start"
    /\ str \in PrefixSigs
    /\ \E k \in DOMAIN PrefixValues(str) : goValue \in PrefixValues(str)[k]
    /\ parsed = Unused /\ op = Unused /\ result = Unused /\ reparsed = Unused
    /\ str0 = Unused /\ parsed0 = Unused
    /\ encResult = Unused /\ decResult = Unused
    /\ children = Unused

SpecPrefix == InitPrefix /\ [][NextOffsets]_vars

\* tuples with dynamic children, each with the places (from 0) of the heads
\* of its dynamic children
SegmentCases ==
    {[sig |-> "(string)", heads |-> <<0>>],
     [sig |-> "(uint8,string)", heads |-> <<1>>],
     [sig |-> "(string,uint16)", heads |-> <<0>>],
     [sig |-> "(string,string)", heads |-> <<0, 2>>],
     [sig |-> "(string,uint8,string)", heads |-> <<0, 3>>],
     [sig |-> "(byte[],string)", heads |-> <<0, 2>>]}

RECURSIVE SegmentTuples(_)
\* a few values of a tuple type of strings, byte arrays and integers
SegmentTuples(childTypes) ==
    IF Len(childTypes) = 0 THEN {<<>>}
    ELSE LET leaves == CASE childTypes[1].kind = "String" ->
                               {GoString(<<>>), GoString(<<0, 0>>), GoString(<<104>>)}
                         [] childTypes[1].kind = "ArrayDynamic" ->
                               {GoSlice(<<>>), GoSlice(<<GoUint8(0)>>)}
                         [] OTHER -> {GoInt(0), GoInt(2)}
         IN  {<<v>> \o rest : v \in leaves, rest \in SegmentTuples(Tail(childTypes))}

\* bytes with the low byte of the head at heads[k] replaced by offsets[k]
WithOffsets(bytes, heads, offsets) ==
    [i \in 1..Len(bytes) |->
        IF \E k \in 1..Len(heads) : i = heads[k] + 2
        THEN offsets[CHOOSE k \in 1..Len(heads) : i = heads[k] + 2]
        ELSE bytes[i]]

\* the caller's input: the encoding of a value with any offsets in the
\* heads of the dynamic children, less up to MaxCut bytes at the end
InitSegments ==
    /\ pc = "start"
    /\ \E c \in SegmentCases :
       \E vs \in SegmentTuples(TypeOf(c.sig).t.childTypes) :
           LET encoded == Encode(TypeOf(c.sig).t, GoSlice(vs)).bytes
           IN  \E offsets \in [1..Len(c.heads) -> 0..(Len(encoded) + 1)] :
               \E cut \in 0..MaxCut :
               \E x \in ByteStrings(MaxAppendSlack, {0}) :
                   /\ str = c.sig
                   /\ goValue = GoSlice(vs)
                   /\ encResult =
                          [err |-> FALSE,
                           bytes |-> SubSeq(WithOffsets(encoded, c.heads, offsets),
                                            1, Len(encoded) - cut),
                           hidden |-> x]
    /\ parsed = Unused /\ op = Unused /\ result = Unused /\ reparsed = Unused
    /\ str0 = Unused /\ parsed0 = Unused
    /\ decResult = Unused
    /\ children = Unused

SpecSegments == InitSegments /\ [][NextDecode]_vars

\* the children of the tuples whose length is asked for
ChildSigs == {"bool", "uint16", "bool[9]", "(bool,bool)", "string"}

\* the tuples of up to n children
ListTupleSigs(n) ==
    {"(" \o Join(cs, ",") \o ")" : cs \in UNION {[1..k -> ChildSigs] : k \in 0..n}}

\* tuples with runs of Bool children around the chunk size of 8, some
\* interrupted by a byte
BoolRunSigs ==
    {BoolTupleSig(r) : r \in {7, 8, 9}}
        \cup {"(" \o Join(Repeat(r, "bool") \o <<"byte">> \o Repeat(s, "bool"), ",") \o ")" :
                  r \in {1, 5}, s \in {0, 4}}

\* static arrays of Bool, which the codec casts to tuples of Bool children
BoolArraySigs == {BoolArraySig(n) : n \in {1, 8, 9, 16, 17, 24, 25}}

TupleLenSigs == ListTupleSigs(MaxChildren) \cup BoolRunSigs

InitTupleLen ==
    /\ pc = "start"
    /\ str \in TupleLenSigs
    /\ parsed = Unused /\ op = Unused /\ result = Unused /\ reparsed = Unused
    /\ str0 = Unused /\ parsed0 = Unused
    /\ goValue = Unused /\ encResult = Unused /\ decResult = Unused
    /\ children = Unused

NextTupleLen == CallTypeOf \/ CallByteLen

SpecTupleLen == InitTupleLen /\ [][NextTupleLen]_vars

\* a caller that parses a tuple signature and splits its content itself:
\* every string of at most MaxTokens tokens between two parentheses
InitSplit ==
    /\ pc = "start"
    /\ str \in {"(" \o content \o ")" : content \in TokenStrings(MaxTokens)}
    /\ parsed = Unused /\ op = Unused /\ result = Unused /\ reparsed = Unused
    /\ str0 = Unused /\ parsed0 = Unused
    /\ goValue = Unused /\ encResult = Unused /\ decResult = Unused
    /\ children = Unused

\* tupleContent, err := parseTupleContent(str[1 : len(str)-1])
CallParseTupleContent ==
    /\ pc = "parsed"
    /\ op' = "parseTupleContent"
    /\ result' = parseTupleContent(Sub(str, 1, Len(str) - 1))
    /\ pc' = "split"
    /\ UNCHANGED <<str, parsed, reparsed, str0, parsed0, goValue, encResult, decResult, children>>

NextSplit == CallTypeOf \/ CallParseTupleContent

SpecSplit == InitSplit /\ [][NextSplit]_vars

RECURSIVE SampleValue(_, _)
\* one well-formed value of a static type, a string or a tuple of them:
\* every Bool is b, every integer 255 or 0, every string "h" or empty
SampleValue(t, b) ==
    CASE t.kind = "Bool" -> GoBool(b)
      [] t.kind \in {"Uint", "Ufixed"} -> GoInt(IF b THEN 255 ELSE 0)
      [] t.kind = "Byte" -> GoUint8(IF b THEN 255 ELSE 0)
      [] t.kind = "String" -> GoString(IF b THEN <<104>> ELSE <<>>)
      [] t.kind = "ArrayStatic" ->
            GoSlice([i \in 1..t.staticLength |-> SampleValue(t.childTypes[1], b)])
      [] t.kind = "Tuple" ->
            GoSlice([i \in 1..Len(t.childTypes) |-> SampleValue(t.childTypes[i], b)])

\* tuples of up to MaxAlignChildren children, the tuples with runs of Bool
\* children and the arrays of Bool, each with two values, encoded and
\* decoded
InitAlign ==
    /\ pc = "start"
    /\ str \in ListTupleSigs(MaxAlignChildren) \cup BoolRunSigs \cup BoolArraySigs
    /\ goValue \in {SampleValue(TypeOf(str).t, b) : b \in BOOLEAN}
    /\ parsed = Unused /\ op = Unused /\ result = Unused /\ reparsed = Unused
    /\ str0 = Unused /\ parsed0 = Unused
    /\ encResult = Unused /\ decResult = Unused
    /\ children = Unused

SpecAlign == InitAlign /\ [][NextCodec]_vars

\* the element counts array-like types are cast to tuples with
CastLengths == (0..MaxCastLen) \cup {255, 256, 65534, 65535}

\* a value of n elements and its array-like type: a byte[n] or a byte[]
\* holding a [n]byte, and for the short lengths a string or a bool[]
InitCast ==
    /\ pc = "start"
    /\ \E n \in CastLengths :
           \/ str = ArraySig("byte", n) /\ goValue = GoZeroByteArray(n)
           \/ str = "byte[]" /\ goValue = GoZeroByteArray(n)
           \/ n <= MaxCastLen /\ str = "string" /\ goValue = GoString([i \in 1..n |-> 97])
           \/ n <= MaxCastLen /\ str = "bool[]"
                  /\ goValue = GoSlice([i \in 1..n |-> GoBool(TRUE)])
    /\ parsed = Unused /\ op = Unused /\ result = Unused /\ reparsed = Unused
    /\ str0 = Unused /\ parsed0 = Unused
    /\ encResult = Unused /\ decResult = Unused
    /\ children = Unused

\* castedType, err := parsed.typeCastToTuple(...), with the argument Encode
\* gives it: none for a static array, the length of the value for a dynamic
\* array or a string
CallTypeCastToTuple ==
    /\ pc = "parsed" /\ ~parsed.err
    /\ op' = "typeCastToTuple"
    /\ result' = typeCastToTuple(parsed.t,
                      CASE parsed.t.kind = "String" -> <<Len(goValue.v)>>
                        [] parsed.t.kind = "ArrayDynamic" ->
                              <<Len(inferToSlice(goValue).values)>>
                        [] OTHER -> <<>>)
    /\ pc' = "cast"
    /\ UNCHANGED <<str, parsed, reparsed, str0, parsed0, goValue, encResult, decResult,
                   children>>

NextCast == CallTypeOf \/ CallTypeCastToTuple

SpecCast == InitCast /\ [][NextCast]_vars

\* the types values are marshalled against
JSONSigs ==
    {"bool", "byte", "uint8", "uint16", "uint32", "uint64", "ufixed8x1", "ufixed16x3",
     "ufixed32x10", "string", "address", "byte[]", "byte[2]", "byte[3]", "bool[2]",
     "uint16[]", "string[]", "()", "(bool,byte[],uint64)", "(uint16,string)[]",
     "(string,(byte[3],ufixed64x3))", "(address,string)", "uint8[][]", "byte[][]",
     "ufixed16x3[2]"}

\* the values of ValuesOf and, for string, address and byte[], more: strings
\* with quotes, backslashes, control and HTML characters, runes of 2, 3 and
\* 4 bytes and bytes that are no rune; addresses and byte lists in each Go
\* type that holds them, and an address one byte short
JSONValues(sig) ==
    <<ValuesOf(TypeOf(sig).t),
      IF sig = "string"
      THEN {GoString(b) :
               b \in ByteStrings(MaxTextLen, {34, 92, 60, 10, 1, 104, 195, 169, 128, 255})}
               \cup {GoString(<<226, 128, 168>>), GoString(<<226, 128, 169>>),
                     GoString(<<104, 195, 169>>), GoString(<<240, 159, 152, 128>>),
                     GoString(<<237, 160, 128>>), GoString(<<92, 117, 48, 48, 52, 49>>)}
      ELSE {},
      IF sig = "address"
      THEN {GoBytes(<<16, 10, 81, 202, 158, 158, 46, 209, 139, 213, 244, 123, 112, 56,
                      225, 176, 71, 198, 31, 126, 155, 105, 97, 91, 131, 241, 213, 95,
                      145, 71, 126, 247>>),
            GoBytes([i \in 1..(addressByteSize - 1) |-> i])}
      ELSE {},
      IF sig = "address" THEN {GoSlice([i \in 1..addressByteSize |-> GoUint8(i)])} ELSE {},
      IF sig = "address" THEN {GoZeroByteArray(addressByteSize)}
      ELSE IF sig = "byte[]" THEN {GoZeroByteArray(4)}
      ELSE {},
      IF sig = "byte[]"
      THEN {GoBytes(<<0, 1, 2>>), GoBytes(<<255>>), GoBytes(<<255, 254>>),
            GoBytes(<<1, 1, 4, 5, 1, 4>>)}
      ELSE {}>>

InitJSON ==
    /\ pc = "start"
    /\ str \in JSONSigs
    /\ \E k \in DOMAIN JSONValues(str) : goValue \in JSONValues(str)[k]
    /\ parsed = Unused /\ op = Unused /\ result = Unused /\ reparsed = Unused
    /\ str0 = Unused /\ parsed0 = Unused
    /\ encResult = Unused /\ decResult = Unused
    /\ children = Unused

\* jsonEncoded, err := parsed.MarshalToJSON(goValue)
CallMarshalToJSON ==
    /\ pc = "parsed" /\ ~parsed.err
    /\ encResult' = MarshalToJSON(parsed.t, goValue)
    /\ pc' = "marshalled"
    /\ UNCHANGED <<str, parsed, op, result, reparsed, str0, parsed0, goValue, decResult,
                   children>>

\* value, err := parsed.UnmarshalFromJSON(jsonEncoded)
CallUnmarshalFromJSON ==
    /\ pc = "marshalled" /\ ~encResult.err
    /\ decResult' = UnmarshalFromJSON(parsed.t, encResult.bytes)
    /\ pc' = "unmarshalled"
    /\ UNCHANGED <<str, parsed, op, result, reparsed, str0, parsed0, goValue, encResult,
                   children>>

NextJSON == CallTypeOf \/ CallMarshalToJSON \/ CallUnmarshalFromJSON

SpecJSON == InitJSON /\ [][NextJSON]_vars

\* the ufixed types of the JSON scenario for decimal literals, with the raw
\* values marshalled against each
FixedSigs == {"ufixed8x1", "ufixed8x2", "ufixed64x3"}

FixedValues(sig) ==
    IF sig = "ufixed64x3" THEN {[tag |-> "uint64", v |-> 123456]}
    ELSE {GoUint8(r) : r \in {0, 9, 25, 255}}

\* the texts unmarshalled: an optional sign before at most MaxLiteralLen
\* bytes out of 0 2 5 6 and the point, and the text 123.456
FixedTexts(sig) ==
    IF sig = "ufixed64x3" THEN {<<49, 50, 51, 46, 52, 53, 54>>}
    ELSE {sign \o body : sign \in {<<>>, <<45>>},
                         body \in ByteStrings(MaxLiteralLen, {48, 50, 53, 54, 46})}

InitFixed ==
    /\ pc = "start"
    /\ str \in FixedSigs
    /\ goValue \in FixedValues(str)
    /\ str0 \in FixedTexts(str)
    /\ parsed = Unused /\ op = Unused /\ result = Unused /\ reparsed = Unused
    /\ parsed0 = Unused
    /\ encResult = Unused /\ decResult = Unused
    /\ children = Unused

\* value, err := parsed.UnmarshalFromJSON(str0), on a text of the caller
CallUnmarshalText ==
    /\ pc = "parsed" /\ ~parsed.err
    /\ decResult' = UnmarshalFromJSON(parsed.t, str0)
    /\ pc' = "unmarshalled"
    /\ UNCHANGED <<str, parsed, op, result, reparsed, str0, parsed0, goValue, encResult,
                   children>>

NextFixed == CallTypeOf \/ CallMarshalToJSON \/ CallUnmarshalText

SpecFixed == InitFixed /\ [][NextFixed]_vars

\* application ids: every combination of a few limb values, and the id
\* 13475904583033571713 of the package's test
AppIds ==
    [1..4 -> {0, 1, 159, 256, 65535}] \cup {<<47876, 2001, 58054, 18817>>}

InitBox ==
    /\ pc = "start"
    /\ \E app \in AppIds : \E name \in ByteStrings(MaxNameLen, {0, 98, 255}) :
           goValue = [app |-> app, name |-> name]
    /\ str = Unused /\ parsed = Unused /\ op = Unused /\ result = Unused
    /\ reparsed = Unused /\ str0 = Unused /\ parsed0 = Unused
    /\ encResult = Unused /\ decResult = Unused
    /\ children = Unused

\* key := MakeBoxKey(app, name)
CallMakeBoxKey ==
    /\ pc = "start"
    /\ encResult' = MakeBoxKey(goValue.app, goValue.name)
    /\ pc' = "keyed"
    /\ UNCHANGED <<str, parsed, op, result, reparsed, str0, parsed0, goValue, decResult,
                   children>>

\* app, name, err := SplitBoxKey(key)
CallSplitBoxKey ==
    /\ pc = "keyed"
    /\ decResult' = SplitBoxKey(encResult)
    /\ pc' = "split"
    /\ UNCHANGED <<str, parsed, op, result, reparsed, str0, parsed0, goValue, encResult,
                   children>>

NextBox == CallMakeBoxKey \/ CallSplitBoxKey

SpecBox == InitBox /\ [][NextBox]_vars

(***************************************************************************)
(* Properties of the type system, checked under SpecType                   *)
(***************************************************************************)

\* C3 (grammar round trip): for every string TypeOf accepts, TypeOf of the
\* parsed type's String() succeeds and returns a type Equal to the parsed one.
GrammarRoundTrip ==
    pc = "reparsed" => (~reparsed.err /\ Equal(parsed.t, reparsed.t))

\* an accepted tuple signature that is not its own canonical string
GrammarRoundTripWitness ==
    /\ pc = "reparsed" /\ ~reparsed.err
    /\ parsed.t.kind = "Tuple" /\ result # str

\* C5 (numeric ranges): TypeOf accepts uintN exactly when N is a multiple of 8
\* in [8,512], and ufixedNxM exactly when N is so and M is in [1,160]; an
\* accepted string yields the type with that bit size and precision.
NumericRanges ==
    LET sizeOk(n) == n >= 8 /\ n <= 512 /\ n % 8 = 0
        uintCase(n) ==
            str = UintSig[n] =>
                IF sizeOk(n)
                THEN ~parsed.err /\ parsed.t.kind = "Uint" /\ parsed.t.bitSize = n
                ELSE parsed.err
        ufixedCase(n, m) ==
            str = UfixedSig[n][m] =>
                IF sizeOk(n) /\ m >= 1 /\ m <= 160
                THEN /\ ~parsed.err /\ parsed.t.kind = "Ufixed"
                     /\ parsed.t.bitSize = n /\ parsed.t.precision = m
                ELSE parsed.err
    IN  (pc # "start" /\ HasPrefix(str, "u")) =>
            /\ \A n \in 0..MaxBitSizeInput : uintCase(n)
            /\ \A n \in 0..MaxBitSizeInput : \A m \in PrecisionSamples : ufixedCase(n, m)
            /\ \A n \in SizeSamples : \A m \in 0..MaxPrecisionInput : ufixedCase(n, m)

\* the largest ufixed type is accepted
NumericRangesWitness ==
    pc = "parsed" /\ str = "ufixed512x160" /\ ~parsed.err /\ parsed.t.precision = 160

\* C6 (static array lengths): TypeOf accepts T[N] for every accepted element
\* type T and every decimal N from 0 to 65535, returning a static array of
\* length N, and rejects a length above 65535.
StaticArrayLengths ==
    (pc # "start" /\ HasSuffix(str, "]")) =>
        \A elem \in ElemSamples : \A n \in LengthSamples :
            str = ArraySig(elem, n) =>
                IF n <= 65535
                THEN /\ ~parsed.err
                     /\ parsed.t.kind = "ArrayStatic"
                     /\ parsed.t.staticLength = n
                     /\ String(parsed.t.childTypes[1]) = elem
                ELSE parsed.err

RECURSIVE Descendants(_)
\* the child types of t at every nesting depth
Descendants(t) ==
    UNION {{t.childTypes[i]} \cup Descendants(t.childTypes[i]) : i \in 1..Len(t.childTypes)}

\* C7 (IsDynamic): true for a dynamic array and for string; for a static
\* array or tuple true exactly when a child at some nesting depth is a
\* dynamic array or a string; false for uint, ufixed, byte, bool, address.
IsDynamicClassification ==
    (pc = "called" /\ op = "IsDynamic") =>
        CASE parsed.t.kind \in {"ArrayDynamic", "String"} -> result = TRUE
          [] parsed.t.kind \in {"ArrayStatic", "Tuple"} ->
                result = (\E d \in Descendants(parsed.t) :
                              d.kind \in {"ArrayDynamic", "String"})
          [] parsed.t.kind \in {"Uint", "Ufixed", "Byte", "Bool", "Address"} ->
                result = FALSE
          [] OTHER -> FALSE

\* a static array found dynamic through a child two levels down
IsDynamicClassificationWitness ==
    /\ pc = "called" /\ op = "IsDynamic" /\ result = TRUE
    /\ parsed.t.kind = "ArrayStatic"
    /\ parsed.t.childTypes[1].kind = "Tuple"

\* C8 (ByteLen and dynamic types): ByteLen returns an error exactly when
\* IsDynamic is true, however deep the dynamic type is nested, and a length
\* otherwise.
ByteLenFailsIffDynamic ==
    (pc = "called" /\ op = "ByteLen") =>
        /\ result.err <=> IsDynamic(parsed.t)
        /\ ~result.err => result.n >= 0

\* ByteLen fails on a tuple whose dynamic type is inside a nested tuple
ByteLenFailsIffDynamicWitness ==
    /\ pc = "called" /\ op = "ByteLen" /\ result.err
    /\ parsed.t.kind = "Tuple"
    /\ \E i \in 1..Len(parsed.t.childTypes) :
           /\ parsed.t.childTypes[i].kind = "Tuple"
           /\ IsDynamic(parsed.t.childTypes[i])

(***************************************************************************)
(* Equality of types, checked under SpecEqual                              *)
(***************************************************************************)

\* C4 (Equal and String): for two types produced by TypeOf (a tuple by
\* MakeTupleType), Equal is true if and only if their String() are equal.
EqualIffSameString ==
    (pc = "called" /\ op = "Equal") =>
        (result <=> String(parsed.t) = String(parsed0.t))

\* two different accepted strings whose types are Equal
EqualIffSameStringWitness ==
    pc = "called" /\ op = "Equal" /\ result = TRUE /\ str # str0

(***************************************************************************)
(* Properties of the binary codec                                          *)
(***************************************************************************)
RECURSIVE Norm(_)
\* a Go value without the Go type it is held in: every integer type is one
\* integer, a []byte is the list of its bytes
Norm(val) ==
    CASE val.tag \in IntTags -> GoInt(val.v)
      [] val.tag = "[]byte" -> GoSlice([i \in 1..Len(val.v) |-> GoInt(val.v[i])])
      [] val.tag = "[n]byte{}" -> GoSlice([i \in 1..val.v |-> GoInt(0)])
      [] val.tag = "[]interface{}" -> GoSlice([i \in 1..Len(val.v) |-> Norm(val.v[i])])
      [] OTHER -> val

RECURSIVE WellFormed(_, _)
\* val is a value of type t; a []byte or [n]byte is a list of byte values
WellFormed(t, val) ==
    LET isList == val.tag \in {"[]byte", "[n]byte{}", "[]interface{}"}
        length == IF val.tag = "[n]byte{}" THEN val.v ELSE Len(val.v)
        elemsOk(childOf) ==
            CASE val.tag = "[n]byte{}" -> \A i \in 1..length : childOf[i].kind = "Byte"
              [] val.tag = "[]byte" ->
                    \A i \in 1..length : childOf[i].kind = "Byte" /\ val.v[i] \in 0..255
              [] OTHER -> \A i \in 1..length : WellFormed(childOf[i], val.v[i])
    IN  CASE t.kind \in {"Uint", "Ufixed"} ->
                val.tag \in IntTags /\ val.v >= 0 /\ BitLen(val.v) <= t.bitSize
          [] t.kind = "Byte" -> val.tag = "uint8" /\ val.v \in 0..255
          [] t.kind = "Bool" -> val.tag = "bool"
          [] t.kind = "String" -> val.tag = "string"
          [] t.kind = "Address" ->
                /\ isList /\ length = addressByteSize
                /\ elemsOk([i \in 1..length |-> byteType])
          [] t.kind = "ArrayStatic" ->
                /\ isList /\ length = t.staticLength
                /\ elemsOk([i \in 1..length |-> t.childTypes[1]])
          [] t.kind = "ArrayDynamic" ->
                /\ isList
                /\ elemsOk([i \in 1..length |-> t.childTypes[1]])
          [] t.kind = "Tuple" ->
                /\ isList /\ length = Len(t.childTypes)
                /\ elemsOk(t.childTypes)
          [] OTHER -> FALSE

\* C1 (binary round trip), checked under SpecCodec: for every accepted type
\* and every well-formed value that Encode accepts, Decode of the encoded
\* bytes succeeds and returns a value equal to the one encoded.
BinaryRoundTrip ==
    (pc = "decoded" /\ WellFormed(parsed.t, goValue)) =>
        (~decResult.err /\ Norm(decResult.v) = Norm(goValue))

\* C2 (static length), checked under SpecCodec: for every static type and
\* every well-formed value, ByteLen succeeds and equals the number of bytes
\* Encode returns.
StaticLengthIsEncodedLength ==
    (pc = "encoded" /\ ~IsDynamic(parsed.t) /\ WellFormed(parsed.t, goValue)) =>
        LET byteLen == ByteLen(parsed.t)
        IN  ~byteLen.err /\ byteLen.n = Len(encResult.bytes)

RECURSIVE PositionalValue(_, _)
\* the number whose base-256 digits, most significant first, are bytes[i..]
PositionalValue(bytes, i) ==
    IF i > Len(bytes) THEN 0
    ELSE bytes[i] * 256 ^ (Len(bytes) - i) + PositionalValue(bytes, i + 1)

\* C9 (integer encoding), checked under SpecInt: for uintN or ufixedNxM and
\* an integer x, Encode succeeds if and only if 0 <= x < 2^N; the result is
\* then N/8 bytes holding x big-endian; otherwise there is an error and no
\* bytes.
IntEncoding ==
    pc = "encoded" =>
        LET n == parsed.t.bitSize
            x == goValue.v
            bytes == encResult.bytes
        IN  /\ ~encResult.err <=> (0 <= x /\ x < 2 ^ n)
            /\ ~encResult.err =>
                   /\ Len(bytes) = n \div 8
                   /\ \A i \in 1..Len(bytes) : bytes[i] \in 0..255
                   /\ PositionalValue(bytes, 1) = x
            /\ encResult.err => bytes = <<>>

\* a three-byte value with three different bytes is encoded
IntEncodingWitness ==
    /\ pc = "encoded" /\ ~encResult.err
    /\ parsed.t.bitSize = 24 /\ goValue.v = 66051
    /\ encResult.bytes = <<1, 2, 3>>

\* C10 (bool packing), checked under SpecBools: a tuple, or a static array,
\* of N bools encodes to ceil(N/8) bytes; bit 7 - (k mod 8) of byte k div 8
\* is 1 exactly when bool k is true, and the unused low bits are 0.
BoolPacking ==
    pc = "encoded" =>
        LET bools == goValue.v
            bytes == encResult.bytes
        IN  /\ ~encResult.err
            /\ Len(bytes) = (Len(bools) + 7) \div 8
            /\ \A j \in 0..(Len(bytes) - 1) : \A p \in 0..7 :
                   ((bytes[j + 1] \div 2 ^ (7 - p)) % 2 = 1)
                       <=> (8 * j + p < Len(bools) /\ bools[8 * j + p + 1].v)

\* [true,false,true] against bool[3] is the single byte 0xA0
BoolPackingWitness ==
    /\ pc = "encoded" /\ str = "bool[3]"
    /\ goValue = GoSlice(<<GoBool(TRUE), GoBool(FALSE), GoBool(TRUE)>>)
    /\ encResult.bytes = <<160>>

(***************************************************************************)
(* The worked example of a tuple with a dynamic child, under SpecPair      *)
(***************************************************************************)

\* the value (5, "hi") is the one being encoded
FiveHi ==
    /\ Len(goValue.v) = 2
    /\ goValue.v[1].v = 5
    /\ goValue.v[2] = GoString(<<104, 105>>)

\* C11 as stated: encoding (5, "hi") against (uint8,string) yields the
\* eight bytes 00 05 00 03 00 02 68 69.
PairBytesAsStated ==
    (pc = "encoded" /\ FiveHi) =>
        (~encResult.err /\ encResult.bytes = <<0, 5, 0, 3, 0, 2, 104, 105>>)

\* C11, amended: encoding (5, "hi") against (uint8,string) yields the seven
\* bytes 05 00 03 00 02 68 69: a one-byte head for the uint8, the offset 3,
\* then the length 2 and the bytes of "hi".
PairBytes ==
    (pc = "encoded" /\ FiveHi) =>
        (~encResult.err /\ encResult.bytes = <<5, 0, 3, 0, 2, 104, 105>>)

PairBytesWitness ==
    pc = "encoded" /\ FiveHi /\ ~encResult.err /\ Len(encResult.bytes) = 7

(***************************************************************************)
(* Decoding bytes that come from the caller, under SpecDecode              *)
(***************************************************************************)

\* the number of bytes the heads of t take: the static length of a static
\* type, 2 for a string or a dynamic array, and for a tuple or array with
\* dynamic children the static length it has with a 2-byte offset in place
\* of every dynamic child
HeadsLen(t) ==
    LET offset == makeUintType(8 * lengthEncodeByteSize).t
        heads == [i \in 1..Len(t.childTypes) |->
                     IF IsDynamic(t.childTypes[i]) THEN offset ELSE t.childTypes[i]]
    IN  CASE t.kind \in {"String", "ArrayDynamic"} -> lengthEncodeByteSize
          [] t.kind = "Tuple" -> ByteLen([t EXCEPT !.childTypes = heads]).n
          [] t.kind = "ArrayStatic" /\ IsDynamic(t) -> lengthEncodeByteSize * t.staticLength
          [] OTHER -> ByteLen(t).n

\* C12 (truncated input): for every type and every byte string shorter than
\* the heads of the type require, Decode returns an error, and does not
\* panic by reading past the input.
TruncatedInputIsError ==
    (pc = "decoded" /\ op = "Decode" /\ Len(encResult.bytes) < HeadsLen(parsed.t)) =>
        (decResult.err /\ ~decResult.panic)

(***************************************************************************)
(* Method signatures, under SpecMethod                                     *)
(***************************************************************************)
RECURSIVE ClosingParen(_, _, _)
\* the position of the ")" that closes the first "(" of s, counting depth
\* from position i on; -1 when there is none
ClosingParen(s, i, depth) ==
    IF i >= Len(s) THEN -1
    ELSE IF At(s, i) = "(" THEN ClosingParen(s, i + 1, depth + 1)
    ELSE IF At(s, i) = ")"
    THEN (IF depth = 1 THEN i ELSE ClosingParen(s, i + 1, depth - 1))
    ELSE ClosingParen(s, i + 1, depth)

RECURSIVE TopLevelPieces(_, _, _, _)
\* the pieces of s between its commas at parenthesis depth 0; from is where
\* the current piece starts
TopLevelPieces(s, i, from, depth) ==
    IF i >= Len(s) THEN (IF Len(s) = 0 THEN <<>> ELSE <<Sub(s, from, Len(s))>>)
    ELSE IF At(s, i) = "," /\ depth = 0
    THEN <<Sub(s, from, i)>> \o TopLevelPieces(s, i + 1, i + 1, depth)
    ELSE TopLevelPieces(s, i + 1, from,
             CASE At(s, i) = "(" -> depth + 1
               [] At(s, i) = ")" -> depth - 1
               [] OTHER -> depth)

\* C14 (method signature parts): ParseMethodSignature returns the text
\* before the first "(" as the name, the text after the ")" closing it as the
\* return type, and the top-level comma-separated pieces of the text between
\* them as the argument types; it returns an error when there is no "(",
\* when the name is empty, or when the first "(" is never closed.
MethodSignatureParts ==
    (pc = "called" /\ op = "ParseMethodSignature") =>
        LET argsStart == Index(str, "(")
            argsEnd == ClosingParen(str, argsStart, 0)
        IN  /\ (argsStart = -1 \/ argsStart = 0 \/ argsEnd = -1) => result.err
            /\ ~result.err =>
                   /\ result.name = Sub(str, 0, argsStart)
                   /\ result.returnType = Sub(str, argsEnd + 1, Len(str))
                   /\ result.argTypes = TopLevelPieces(Sub(str, argsStart + 1, argsEnd), 0, 0, 0)

\* the keywords of C15, as the claim lists them
ReferenceKeywords == {"account", "asset", "application"}
TransactionKeywords == {"txn", "pay", "keyreg", "acfg", "axfer", "afrz", "appl"}

\* C15 (method signature verification): VerifyMethodSignature succeeds if
\* and only if ParseMethodSignature succeeds, every argument is a reference
\* keyword, a transaction keyword or a string TypeOf accepts, and the return
\* type is void or a string TypeOf accepts.
VerifyIffPartsValid ==
    (pc = "called" /\ op = "VerifyMethodSignature") =>
        LET sig == ParseMethodSignature(str)
        IN  ~result.err <=>
                /\ ~sig.err
                /\ \A i \in 1..Len(sig.argTypes) :
                       \/ sig.argTypes[i] \in ReferenceKeywords \cup TransactionKeywords
                       \/ ~TypeOf(sig.argTypes[i]).err
                /\ (sig.returnType = "void" \/ ~TypeOf(sig.returnType).err)

\* a signature with reference and transaction arguments is verified
VerifyIffPartsValidWitness ==
    /\ pc = "called" /\ op = "VerifyMethodSignature"
    /\ str = "f(asset,application,txn)bool" /\ ~result.err

(***************************************************************************)
(* Ownership of the child types, under SpecAlias                           *)
(***************************************************************************)

\* C16 (immutability): after MakeTupleType(children) has returned t, a write
\* by the caller to an element of children does not change t: String, Equal,
\* IsDynamic, ByteLen, Encode and Decode give what they gave before.
TupleTypeUnchangedByWrite ==
    pc = "reobserved" => reparsed = result

(***************************************************************************)
(* Box keys, under SpecBox                                                 *)
(***************************************************************************)

\* byte k (0 is the most significant) of the 64-bit number with limbs app
AppByte(app, k) ==
    LET limb == app[(k \div 2) + 1]
    IN  IF k % 2 = 0 THEN limb \div 256 ELSE limb % 256

\* C17 (box key round trip): MakeBoxKey(app, name) is "bx:", then the 8
\* bytes of app big-endian, then name; SplitBoxKey of that key returns app
\* and name with no error.
BoxKeyRoundTrip ==
    /\ pc \in {"keyed", "split"} =>
           /\ Len(encResult) = 3 + 8 + Len(goValue.name)
           /\ SubSeq(encResult, 1, 3) = <<98, 120, 58>>
           /\ \A k \in 0..7 : encResult[4 + k] = AppByte(goValue.app, k)
           /\ SubSeq(encResult, 12, Len(encResult)) = goValue.name
    /\ pc = "split" =>
           /\ ~decResult.err
           /\ decResult.app = goValue.app
           /\ decResult.name = goValue.name

\* the key of the test's largest application id with the empty name splits
BoxKeyRoundTripWitness ==
    /\ pc = "split" /\ ~decResult.err
    /\ goValue.app = <<47876, 2001, 58054, 18817>> /\ goValue.name = <<>>
    /\ encResult = <<98, 120, 58, 187, 4, 7, 209, 226, 198, 73, 129>>

(***************************************************************************)
(* The layout of an encoded tuple, under SpecOffsets                       *)
(***************************************************************************)

\* the tuple type with these children (of any number)
TupleOf(childT) ==
    [ZeroType EXCEPT !.kind = "Tuple", !.childTypes = childT]

\* the encoding of child i when it is dynamic, no bytes otherwise
TailOf(childT, vals, i) ==
    IF IsDynamic(childT[i]) THEN Encode(childT[i], vals[i]).bytes ELSE <<>>

RECURSIVE TailsBefore(_, _, _)
\* the total length of the tails of the children before child j
TailsBefore(childT, vals, j) ==
    IF j <= 1 THEN 0
    ELSE TailsBefore(childT, vals, j - 1) + Len(TailOf(childT, vals, j - 1))

\* where the tail of child j begins: all heads, then the tails before it
OffsetOf(childT, vals, j) ==
    HeadsLen(TupleOf(childT)) + TailsBefore(childT, vals, j)

\* where the head of child j begins: the heads of the children before it
HeadPosition(childT, j) == HeadsLen(TupleOf(SubSeq(childT, 1, j - 1)))

RECURSIVE OffsetTooLarge(_, _)
\* some offset in the encoding of val, at any depth, would exceed 65535
OffsetTooLarge(t, val) ==
    IF ~IsDynamic(t) \/ t.kind = "String" THEN FALSE
    ELSE LET vals == inferToSlice(val).values
             childT == IF t.kind = "Tuple" THEN t.childTypes
                       ELSE [i \in 1..Len(vals) |-> t.childTypes[1]]
         IN  \/ \E j \in 1..Len(childT) :
                    IsDynamic(childT[j]) /\ OffsetOf(childT, vals, j) > 65535
             \/ \E i \in 1..Len(childT) : OffsetTooLarge(childT[i], vals[i])

\* C18 (tuple encoding offsets): the head of each dynamic child holds,
\* big-endian, the length of all heads plus the lengths of the tails of the
\* preceding children, and its tail begins there; the output is all heads
\* in order followed by all tails in order; Encode returns an error if and
\* only if some such offset would exceed 65535.
TupleEncodingOffsets ==
    (pc = "encoded" /\ parsed.t.kind = "Tuple" /\ WellFormed(parsed.t, goValue)) =>
        LET childT == parsed.t.childTypes
            vals == goValue.v
            bytes == encResult.bytes
        IN  /\ encResult.err <=> OffsetTooLarge(parsed.t, goValue)
            /\ ~encResult.err =>
                   /\ Len(bytes) = OffsetOf(childT, vals, Len(childT) + 1)
                   /\ \A j \in 1..Len(childT) :
                          LET at == HeadPosition(childT, j)
                              offset == OffsetOf(childT, vals, j)
                              tail == TailOf(childT, vals, j)
                          IN  CASE IsDynamic(childT[j]) ->
                                     /\ bytes[at + 1] = offset \div 256
                                     /\ bytes[at + 2] = offset % 256
                                     /\ SubSeq(bytes, offset + 1, offset + Len(tail)) = tail
                                [] childT[j].kind = "Bool" -> TRUE
                                [] OTHER ->
                                     LET head == Encode(childT[j], vals[j]).bytes
                                     IN  SubSeq(bytes, at + 1, at + Len(head)) = head

RECURSIVE Oversized(_, _)
\* val holds a list of 65535 elements or more, at any depth
Oversized(t, val) ==
    IF t.kind \in {"Uint", "Ufixed", "Bool", "Byte", "Address"} THEN FALSE
    ELSE IF t.kind = "String" THEN Len(val.v) >= 65535
    ELSE IF val.tag = "[n]byte{}" THEN val.v >= 65535
    ELSE LET vals == inferToSlice(val).values
         IN  \/ Len(vals) >= 65535
             \/ \E i \in 1..Len(vals) :
                    Oversized(IF t.kind = "Tuple" THEN t.childTypes[i] ELSE t.childTypes[1],
                              vals[i])

\* the layout and the error condition of C18 for the values with no list of
\* 65535 elements, which typeCastToTuple refuses whatever the offsets are
TupleEncodingOffsetsBelowLimit ==
    (pc = "encoded" /\ ~Oversized(parsed.t, goValue)) => TupleEncodingOffsets

(***************************************************************************)
(* The length prefix of strings and dynamic arrays, under SpecPrefix       *)
(***************************************************************************)

\* the number of elements of a string or list value
ElementCount(val) == IF val.tag = "[n]byte{}" THEN val.v ELSE Len(val.v)

\* C19 (length prefix): whenever Encode succeeds for a dynamic array or a
\* string of n elements, the output is the 2-byte big-endian n itself (so
\* n is below 65536) followed by the tuple encoding of the n elements; for
\* n = 0 it is exactly the two bytes 00 00; the empty tuple encodes to zero
\* bytes.
LengthPrefix ==
    /\ (pc = "encoded" /\ ~encResult.err /\ parsed.t.kind \in {"ArrayDynamic", "String"}) =>
           LET n == ElementCount(goValue)
               elementType == IF parsed.t.kind = "String" THEN byteType
                              ELSE parsed.t.childTypes[1]
               elements == IF parsed.t.kind = "String" THEN GoBytes(goValue.v) ELSE goValue
               asTuple == Encode(TupleOf([i \in 1..n |-> elementType]), elements)
           IN  /\ n < 65536
               /\ ~asTuple.err
               /\ encResult.bytes = <<n \div 256, n % 256>> \o asTuple.bytes
               /\ n = 0 => encResult.bytes = <<0, 0>>
    /\ (pc = "encoded" /\ parsed.t.kind = "Tuple" /\ parsed.t.childTypes = <<>>
           /\ WellFormed(parsed.t, goValue)) =>
           (~encResult.err /\ encResult.bytes = <<>>)

\* a string of MaxPrefixLen bytes has been encoded
LengthPrefixWitness ==
    /\ pc = "encoded" /\ ~encResult.err /\ parsed.t.kind = "String"
    /\ Len(goValue.v) = MaxPrefixLen
    /\ Len(encResult.bytes) = 2 + MaxPrefixLen

(***************************************************************************)
(* The segments of a decoded tuple, under SpecSegments                     *)
(***************************************************************************)

\* the dynamic children of a tuple, in order
DynamicIndices(childT) == {j \in 1..Len(childT) : IsDynamic(childT[j])}

\* the offset in the head of dynamic child j of input b
HeadOffset(b, childT, j) ==
    LET at == HeadPosition(childT, j) IN b[at + 1] * 256 + b[at + 2]

\* the offset that ends the segment of dynamic child j: that of the next
\* dynamic child, or the length of the input
SegmentEnd(b, childT, j) ==
    IF \E n \in DynamicIndices(childT) : n > j
    THEN HeadOffset(b, childT, CHOOSE n \in DynamicIndices(childT) :
                                   n > j /\ \A m \in DynamicIndices(childT) : m > j => n <= m)
    ELSE Len(b)

\* the offsets of b do not decrease, the length of b ending them
SegmentsOrdered(b, childT) ==
    \A j \in DynamicIndices(childT) : HeadOffset(b, childT, j) <= SegmentEnd(b, childT, j)

\* the heads of all dynamic children lie within b
DynamicHeadsPresent(b, childT) ==
    \A j \in DynamicIndices(childT) : HeadPosition(childT, j) + 2 <= Len(b)

\* C20 (tuple decoding offsets): when Decode succeeds on b for a tuple with
\* dynamic children, their head offsets do not decrease and end at most at
\* len(b), and each dynamic child is decoded from exactly the bytes between
\* its offset and the next; when an offset is larger than the next, or the
\* last larger than len(b), Decode returns an error.
TupleDecodingOffsets ==
    (pc = "decoded" /\ parsed.t.kind = "Tuple"
        /\ DynamicHeadsPresent(encResult.bytes, parsed.t.childTypes)) =>
        LET b == encResult.bytes
            childT == parsed.t.childTypes
        IN  /\ ~decResult.err =>
                   /\ SegmentsOrdered(b, childT)
                   /\ \A j \in DynamicIndices(childT) :
                          LET segment == SubSeq(b, HeadOffset(b, childT, j) + 1,
                                                SegmentEnd(b, childT, j))
                              alone == Decode(childT[j], MkSlice(segment, <<>>))
                          IN  ~alone.err /\ decResult.v.v[j] = alone.v
            /\ ~SegmentsOrdered(b, childT) => (decResult.err /\ ~decResult.panic)

\* the same for the inputs on which no child is read past its bytes: all
\* heads lie within b and every dynamic child is a string
TupleDecodingOffsetsWithinInput ==
    (pc = "decoded" /\ Len(encResult.bytes) >= HeadsLen(parsed.t)
        /\ \A j \in DynamicIndices(parsed.t.childTypes) :
               parsed.t.childTypes[j].kind = "String") =>
        TupleDecodingOffsets

(***************************************************************************)
(* The JSON round trip, under SpecJSON                                     *)
(***************************************************************************)

\* seq is the UTF-8 encoding of one Unicode scalar value, in its shortest
\* form
IsScalarEncoding(seq) ==
    LET cont(k) == seq[k] \in 128..191
        low(k) == seq[k] - 128
    IN  CASE Len(seq) = 1 -> seq[1] < 128
          [] Len(seq) = 2 -> seq[1] \in 192..223 /\ cont(2) /\ seq[1] - 192 >= 2
          [] Len(seq) = 3 ->
                /\ seq[1] \in 224..239 /\ cont(2) /\ cont(3)
                /\ LET scalar == (seq[1] - 224) * 4096 + low(2) * 64 + low(3)
                   IN  scalar >= 2048 /\ scalar \notin 55296..57343
          [] Len(seq) = 4 ->
                /\ seq[1] \in 240..247 /\ cont(2) /\ cont(3) /\ cont(4)
                /\ LET scalar == (seq[1] - 240) * 262144 + low(2) * 4096 + low(3) * 64 + low(4)
                   IN  scalar \in 65536..1114111
          [] OTHER -> FALSE

RECURSIVE IsUTF8(_)
\* bytes is a sequence of encoded scalar values
IsUTF8(bytes) ==
    \/ Len(bytes) = 0
    \/ \E w \in 1..4 :
           /\ w <= Len(bytes)
           /\ IsScalarEncoding(SubSeq(bytes, 1, w))
           /\ IsUTF8(SubSeq(bytes, w + 1, Len(bytes)))

RECURSIVE TextsAndAddresses(_, _)
\* every string in val is UTF-8 text and every address is held as 32 raw
\* bytes, a []byte or a [32]byte
TextsAndAddresses(t, val) ==
    CASE t.kind = "String" -> IsUTF8(val.v)
      [] t.kind = "Address" -> val.tag \in {"[]byte", "[n]byte{}"}
      [] t.kind \in {"ArrayStatic", "ArrayDynamic", "Tuple"} /\ val.tag = "[]interface{}" ->
            \A i \in 1..Len(val.v) :
                TextsAndAddresses(IF t.kind = "Tuple" THEN t.childTypes[i]
                                  ELSE t.childTypes[1], val.v[i])
      [] OTHER -> TRUE

FirstDynamic(childT) ==
    CHOOSE j \in DynamicIndices(childT) : \A m \in DynamicIndices(childT) : j <= m

\* C21 (every byte consumed once): whenever Decode succeeds on b for a
\* tuple type, len(b) is the total head length when all children are static,
\* and the first dynamic offset is the total head length otherwise, so that
\* no byte is skipped and no head byte is read again as payload.
EveryByteConsumedOnce ==
    (pc = "decoded" /\ parsed.t.kind = "Tuple" /\ ~decResult.err) =>
        LET b == encResult.bytes
            childT == parsed.t.childTypes
        IN  IF DynamicIndices(childT) = {}
            THEN Len(b) = HeadsLen(parsed.t)
            ELSE /\ DynamicHeadsPresent(b, childT)
                 /\ HeadOffset(b, childT, FirstDynamic(childT)) = HeadsLen(parsed.t)

(***************************************************************************)
(* The byte length of tuples, under SpecTupleLen                           *)
(***************************************************************************)

\* child i of childT is a Bool with no Bool directly before it
StartsBoolRun(childT, i) ==
    childT[i].kind = "Bool" /\ (i = 1 \/ childT[i - 1].kind # "Bool")

\* the length of the maximal run of Bool children that starts at child i
BoolRunLength(childT, i) ==
    CHOOSE r \in 1..(Len(childT) - i + 1) :
        /\ \A k \in i..(i + r - 1) : childT[k].kind = "Bool"
        /\ (i + r > Len(childT) \/ childT[i + r].kind # "Bool")

\* what child i adds to the length of its tuple: a run of r Bool children
\* adds ceil(r/8) once, at its first child; another child adds its ByteLen
Contribution(childT, i) ==
    IF childT[i].kind = "Bool"
    THEN IF StartsBoolRun(childT, i)
         THEN LET r == BoolRunLength(childT, i)
              IN  IF r % 8 = 0 THEN r \div 8 ELSE r \div 8 + 1
         ELSE 0
    ELSE ByteLen(childT[i]).n

RECURSIVE SumOfContributions(_, _)
\* the sum of the contributions of the first n children
SumOfContributions(childT, n) ==
    IF n = 0 THEN 0
    ELSE SumOfContributions(childT, n - 1) + Contribution(childT, n)

\* C22 (tuple ByteLen): for a static tuple type, ByteLen is the sum over
\* the children where every maximal run of r consecutive Bool children
\* adds ceil(r/8) bytes once and every other child adds its own ByteLen; a
\* run interrupted by a non-Bool child starts a new run.
TupleByteLen ==
    (pc = "called" /\ op = "ByteLen" /\ parsed.t.kind = "Tuple" /\ ~IsDynamic(parsed.t)) =>
        /\ ~result.err
        /\ result.n = SumOfContributions(parsed.t.childTypes, Len(parsed.t.childTypes))

\* five Bool children, a byte and four more Bool children take 1 + 1 + 1
\* bytes
TupleByteLenWitness ==
    /\ pc = "called" /\ op = "ByteLen"
    /\ str = "(" \o Join(Repeat(5, "bool") \o <<"byte">> \o Repeat(4, "bool"), ",") \o ")"
    /\ result = [err |-> FALSE, n |-> 3]

(***************************************************************************)
(* The byte length of static arrays, under SpecType                        *)
(***************************************************************************)

\* C23 (static array ByteLen): for a static array of Bool of declared
\* length L, ByteLen is ceil(L/8) for every L in 0..65535; for a static
\* array of another static element it is L times the element's ByteLen.
StaticArrayByteLen ==
    (pc = "called" /\ op = "ByteLen" /\ parsed.t.kind = "ArrayStatic"
        /\ ~IsDynamic(parsed.t)) =>
        LET L == parsed.t.staticLength
            elem == parsed.t.childTypes[1]
        IN  /\ ~result.err
            /\ result.n = IF elem.kind = "Bool"
                          THEN (IF L % 8 = 0 THEN L \div 8 ELSE L \div 8 + 1)
                          ELSE L * ByteLen(elem).n

(***************************************************************************)
(* Splitting of tuple content, under SpecSplit                             *)
(***************************************************************************)

\* C24 (tuple-content splitting): whenever parseTupleContent(str) succeeds,
\* it returns, in order, exactly the substrings of str delimited by the
\* commas at parenthesis depth 0, so that joining them with "," gives back
\* str.
SplitAtTopLevelCommas ==
    (pc = "split" /\ ~result.err) =>
        LET content == Sub(str, 1, Len(str) - 1)
        IN  /\ result.segs = TopLevelPieces(content, 0, 0, 0)
            /\ Join(result.segs, ",") = content

\* the number of "(" less the number of ")" among the first i bytes of s
DepthAt(s, i) ==
    Cardinality({k \in 0..(i - 1) : At(s, k) = "("})
        - Cardinality({k \in 0..(i - 1) : At(s, k) = ")"})

\* some ")" of s has no "(" before it, or some "(" is never closed
Unbalanced(s) ==
    \/ \E i \in 1..Len(s) : DepthAt(s, i) < 0
    \/ DepthAt(s, Len(s)) # 0

\* C25 (rejected tuple content): parseTupleContent returns an error, and
\* TypeOf rejects the tuple, when the content starts or ends with a comma,
\* contains two consecutive commas or has unbalanced parentheses; the empty
\* content is accepted and gives a tuple with no children.
MalformedContentRejected ==
    pc = "split" =>
        LET content == Sub(str, 1, Len(str) - 1)
            malformed == \/ HasPrefix(content, ",") \/ HasSuffix(content, ",")
                         \/ Contains(content, ",,")
                         \/ Unbalanced(content)
        IN  /\ malformed => (result.err /\ ~result.panic /\ parsed.err)
            /\ content = "" =>
                   /\ ~result.err /\ result.segs = <<>>
                   /\ ~parsed.err /\ parsed.t.kind = "Tuple" /\ parsed.t.childTypes = <<>>

(***************************************************************************)
(* JSON of ufixed types, under SpecFixed                                   *)
(***************************************************************************)

RECURSIVE Pow10(_)
Pow10(m) == IF m = 0 THEN 1 ELSE 10 * Pow10(m - 1)

RECURSIVE Pow2(_)
Pow2(n) == IF n = 0 THEN 1 ELSE 2 * Pow2(n - 1)

\* a decimal literal: an optional sign, then digits with at most one point
\* among them and at least one digit
IsDecimalLiteral(text) ==
    LET body == IF Len(text) > 0 /\ text[1] = 45 THEN Tail(text) ELSE text
    IN  /\ \A i \in 1..Len(body) : body[i] \in (48..57) \cup {46}
        /\ Cardinality({i \in 1..Len(body) : body[i] = 46}) <= 1
        /\ \E i \in 1..Len(body) : body[i] \in 48..57

\* the literal as a fraction num / 10^scale, with its sign
LiteralValue(text) ==
    LET negative == text[1] = 45
        body == IF negative THEN Tail(text) ELSE text
        digits == SelectSeq(body, LAMBDA c : c # 46)
        points == {i \in 1..Len(body) : body[i] = 46}
    IN  [negative |-> negative,
         num |-> ParseDecimal(digits),
         scale |-> IF points = {} THEN 0 ELSE Len(body) - (CHOOSE i \in points : TRUE)]

\* C26 (JSON of ufixedNxM): UnmarshalFromJSON of a decimal literal d
\* succeeds if and only if d * 10^M is an exact non-negative integer smaller
\* than 2^N, and then returns that integer; MarshalToJSON of a raw value r
\* gives the decimal text of r / 10^M with exactly M fractional digits.
FixedPointJSON ==
    LET N == parsed.t.bitSize
        M == parsed.t.precision
    IN  /\ (pc = "unmarshalled" /\ IsDecimalLiteral(str0)) =>
               LET d == LiteralValue(str0)
                   exact == (d.num * Pow10(M)) % Pow10(d.scale) = 0
                   scaled == (d.num * Pow10(M)) \div Pow10(d.scale)
                   \* every literal of the scenario is below 2^31
                   inRange == (~d.negative \/ scaled = 0) /\ (N >= 31 \/ scaled < Pow2(N))
               IN  /\ ~decResult.err <=> (exact /\ inRange)
                   /\ ~decResult.err => decResult.v.v = scaled
        /\ pc = "marshalled" =>
               LET text == encResult.bytes
                   r == goValue.v
               IN  /\ ~encResult.err
                   /\ Len(text) >= M + 2
                   /\ text[Len(text) - M] = 46
                   /\ IsDigits(SubSeq(text, 1, Len(text) - M - 1))
                   /\ IsDigits(SubSeq(text, Len(text) - M + 1, Len(text)))
                   /\ (Len(text) - M - 1 = 1 \/ text[1] # 48)
                   /\ ParseDecimal(SubSeq(text, 1, Len(text) - M - 1)) = r \div Pow10(M)
                   /\ ParseDecimal(SubSeq(text, Len(text) - M + 1, Len(text))) = r % Pow10(M)

\* "123.456" has been read against ufixed64x3 as 123456
FixedPointJSONWitness ==
    /\ pc = "unmarshalled" /\ str = "ufixed64x3"
    /\ str0 = <<49, 50, 51, 46, 52, 53, 54>>
    /\ decResult = DecOk([tag |-> "uint64", v |-> 123456])

(***************************************************************************)
(* Alignment of Bool chunks, under SpecAlign                               *)
(***************************************************************************)

\* the number of consecutive Bool children directly before child i (from 0)
BoolsBefore(childT, i) ==
    Cardinality({k \in 0..(i - 1) : \A j \in k..(i - 1) : childT[j + 1].kind = "Bool"})

\* C27 (Bool chunk alignment): whenever the loop of encodeTuple or
\* decodeTuple reaches a Bool child at index i, the number of consecutive
\* Bool children directly before i is a multiple of 8, and so is the count
\* the loop takes from findBoolLR, so that the alignment error is returned
\* for no type and no input: Encode of a well-formed value and Decode of
\* its bytes succeed.
BoolChunksAligned ==
    pc \in {"encoded", "decoded"} =>
        LET \* the children the loops run over: those of a tuple, or of the tuple
            \* a static array is cast to
            childT == IF parsed.t.kind = "Tuple" THEN parsed.t.childTypes
                      ELSE typeCastToTuple(parsed.t, <<>>).t.childTypes
        IN  /\ \A i \in boolBranchIndices(childT, 0) :
                   /\ childT[i + 1].kind = "Bool"
                   /\ BoolsBefore(childT, i) % 8 = 0
                   /\ findBoolLR(childT, i, -1) = BoolsBefore(childT, i)
            /\ ~encResult.err
            /\ pc = "decoded" => ~decResult.err

\* the loops have gone through the seventeen Bool children of bool[17],
\* entering the Bool branch at the first, the ninth and the last
BoolChunksAlignedWitness ==
    /\ pc = "decoded" /\ str = BoolArraySig(17)
    /\ boolBranchIndices(typeCastToTuple(parsed.t, <<>>).t.childTypes, 0) = {0, 8, 16}
    /\ Len(encResult.bytes) = 3
    /\ ~decResult.err

(***************************************************************************)
(* Canonical signatures, under SpecType                                    *)
(***************************************************************************)

\* C28 (only canonical signatures): for every string s that TypeOf accepts,
\* TypeOf(s).String() is s, so that no two different strings parse to the
\* same type and no part of an accepted string is ignored.
AcceptedSignatureIsCanonical ==
    (pc = "called" /\ op = "String") => result = str

(***************************************************************************)
(* Canonical encodings, under SpecCanon                                    *)
(***************************************************************************)

\* C29 (canonical binary encoding): for every type t and every byte string
\* b on which t.Decode(b) succeeds, t.Encode of the decoded value succeeds
\* and is byte for byte equal to b.
EncodingIsCanonical ==
    pc = "reencoded" => (~result.err /\ result.bytes = encResult.bytes)

(***************************************************************************)
(* Lengths of cast tuples, under SpecCast                                  *)
(***************************************************************************)

\* C30 (every 16-bit length usable): typeCastToTuple succeeds for every
\* element count from 0 to 65535, for a static array accepted by TypeOf as
\* for a dynamic array or a string of that many elements, and gives the
\* tuple of that many children.
CastSucceedsUpToMaxUint16 ==
    pc = "cast" =>
        LET count == IF parsed.t.kind = "ArrayStatic" THEN parsed.t.staticLength
                     ELSE ElementCount(goValue)
        IN  count <= 65535 =>
                /\ ~result.err
                /\ result.t.kind = "Tuple"
                /\ Len(result.t.childTypes) = count
=============================================================================
